---- MODULE Spec2Model ----
(***************************************************************************)
(* Background rotation of the default theme (themes/default/assets/app.js, *)
(* first script block): provider round robin, image loading with retry and *)
(* fallback, the single-flight swap coordinator with its one-slot queue,   *)
(* the double-buffered cross-dissolve with its safety-net timer, the       *)
(* proactive preload and the rotation interval.                            *)
(*                                                                         *)
(* The page runs on one thread: every action below is one browser task     *)
(* (an event handler, a timer callback or an image load/error callback)    *)
(* together with all promise continuations it releases.                    *)
(***************************************************************************)
EXTENDS Integers, Sequences, FiniteSets, Bags, TLC

\* ---------------------------------------------------------------- bounds
\* external swap requests (scheduler ticks + clicks) after mount
MaxRequests == 2
\* direct calls of loadNextWithRetry in the resolver specification
MaxCalls == 2
\* largest explicit maxTries argument in the resolver specification
MaxTriesArg == 3
\* image load errors the environment produces in one run of the page
MaxErrors == 3
\* external swap requests in the runs whose images are of every tone
MaxToneRequests == 1
\* how far the number of white pixels of a bitmap handed to analyzeTone on
\* its own is from the number at which its average luminance passes 0.6
MaxOff == 1
\* calls of analyzeTone on one bitmap
MaxAnalyses == 2
\* the same two bounds for the runs checked for progress
MaxLiveRequests == 2
MaxLiveErrors == 1
MaxConfigRequests == 2
\* the runs that follow the clock: ticks, image load errors, seconds
MaxClockRequests == 2
MaxClockErrors == 3
MaxTime == 7
\* external swap requests, and image load errors, in the runs in which both
\* settings are changed
MaxOwnRequests == 1
MaxOwnErrors == 3
\* the second script: requests and image errors of one run
MaxSeqRequests == 2
MaxSeqErrors == 2
\* fetch events dispatched to the service worker in one run
MaxFetches == 2
\* direct calls of nextUrl and loadNextWithRetry in the cursor specification
MaxCursorCalls == 4

\* ------------------------------------------------------------- constants
\* number of entries of BG_PROVIDERS
ProviderCount == 2

\* undefined: an omitted argument, a CSS variable not set, a clock not
\* followed
UNDEF == -1
\* null
NULL == "null"
Surfaces == {"bgLayer", "bgLayer2"}
Tones == {"light", "dark", NULL}
\* a run whose images are all classified dark
DarkOnly == {"dark"}
IntervalOptions == {0, 5}
ConfigIntervals == {0, 5, 10}

ProviderUrl(i) == [kind |-> "provider", idx |-> i]
FALLBACK_BG == [kind |-> "fallback", idx |-> 0]
NoUrl == [kind |-> "none", idx |-> 0]
NoRes == [url |-> NoUrl]

VARIABLES
  mounted,      \* initBg has run
  bgPrimary,    \* let bgPrimary
  bgBuffer,     \* let bgBuffer
  fade,         \* surface -> it carries the class 'fade'
  bgImage,      \* surface -> style.backgroundImage
  transit,      \* surface -> an opacity transition is running on it
  listeners,    \* crossfades whose transitionend listener is registered
  timers,       \* pending safety-net timers, oldest first
  xf,           \* swap -> the closure of the onDone of its crossfade,
                \* while its listener or its timer is pending
  switching,    \* let switching
  queued,       \* let queued
  preloaded,    \* let preloaded
  providerIdx,  \* let providerIdx
  bgTimer,      \* let bgTimer: 0 = null, else the id of an interval timer
  intervals,    \* the interval timers of the browser that are armed
  store,        \* localStorage 'dove-bg-interval', a string
  blur,         \* CSS variable --bg-blur in px, UNDEF before it is set
  blurStore,    \* localStorage 'dove-bg-blur', a string
  device,       \* what isMobileDevice() and isTabletDevice() answer
  now,          \* seconds since the page was loaded, UNDEF in the runs
                \* that do not follow the time
  tone,         \* the tone applied: body attribute data-img-tone in the
                \* first script, class light/dark of the root element in
                \* the second
  theme,        \* localStorage 'dove-theme', NULL while absent
  bodyTheme,    \* the class theme-* of body, NULL before it is set
  loads,        \* the calls of loadNextWithRetry in flight (a bag)
  nSwaps,       \* history: swaps started (switching set to true)
  active,       \* history: swaps started and not yet completed
  fading,       \* history: active swaps whose crossfade has begun
  absorbed,     \* history: requests absorbed since the last swap start
  reqs,         \* history: external requests made
  nErrors,      \* history: image load errors so far
  ev,           \* history: the last step
  analysis,     \* a bitmap handed to analyzeTone, with the results returned
  swPhase,      \* service worker: its state in the browser
  cacheNames,   \* CacheStorage: the names of the caches, oldest first
  cacheStore,   \* CacheStorage: cache name -> URL -> the response stored
  online,       \* the network is up
  fetches,      \* the fetch events dispatched to the worker, with what
                \* each has done so far
  pendingPuts,  \* the calls caches.open(CACHE_NAME).then(cache.put) of the
                \* fetch listener that have not stored their response
                \* yet, one for each fetch event that made one
  deletes       \* the caches.delete calls of the activate listener:
                \* cache name -> the call has settled

vars == <<mounted, bgPrimary, bgBuffer, fade, bgImage, transit, listeners,
          timers, xf, switching, queued, preloaded, providerIdx, bgTimer,
          intervals, store, blur, blurStore, device, now, tone, theme,
          bodyTheme, loads, nSwaps, active, fading, absorbed, reqs, nErrors,
          ev, analysis, swPhase, cacheNames, cacheStore, online, fetches,
          pendingPuts, deletes>>

\* the part of the state that belongs to the service worker
swVars == <<swPhase, cacheNames, cacheStore, online, fetches, pendingPuts,
            deletes>>

\* the current state as one value, so that handlers compose as functions
State ==
  [mounted |-> mounted, bgPrimary |-> bgPrimary, bgBuffer |-> bgBuffer,
   fade |-> fade, bgImage |-> bgImage, transit |-> transit,
   listeners |-> listeners, timers |-> timers, xf |-> xf,
   switching |-> switching, queued |-> queued, preloaded |-> preloaded,
   providerIdx |-> providerIdx, bgTimer |-> bgTimer, store |-> store,
   intervals |-> intervals, blur |-> blur, blurStore |-> blurStore,
   device |-> device, now |-> now,
   tone |-> tone, theme |-> theme, bodyTheme |-> bodyTheme, loads |-> loads, nSwaps |-> nSwaps, active |-> active,
   fading |-> fading, absorbed |-> absorbed, reqs |-> reqs,
   nErrors |-> nErrors, sample |-> NULL, mark |-> "step"]

\* the state at the start of a task in which analyzeTone, if it runs,
\* classifies the image as t (NULL: it could not read the pixels)
With(t) == [State EXCEPT !.sample = t]

Commit(s, e) ==
  /\ mounted' = s.mounted
  /\ bgPrimary' = s.bgPrimary
  /\ bgBuffer' = s.bgBuffer
  /\ fade' = s.fade
  /\ bgImage' = s.bgImage
  /\ transit' = s.transit
  /\ listeners' = s.listeners
  /\ timers' = s.timers
  /\ xf' = s.xf
  /\ switching' = s.switching
  /\ queued' = s.queued
  /\ preloaded' = s.preloaded
  /\ providerIdx' = s.providerIdx
  /\ bgTimer' = s.bgTimer
  /\ store' = s.store
  /\ intervals' = s.intervals
  /\ blur' = s.blur
  /\ blurStore' = s.blurStore
  /\ device' = s.device
  /\ now' = s.now
  /\ tone' = s.tone
  /\ theme' = s.theme
  /\ bodyTheme' = s.bodyTheme
  /\ loads' = s.loads
  /\ nSwaps' = s.nSwaps
  /\ active' = s.active
  /\ fading' = s.fading
  /\ absorbed' = s.absorbed
  /\ reqs' = s.reqs
  /\ nErrors' = s.nErrors
  /\ ev' = IF e = "step" THEN s.mark ELSE e
  /\ analysis' = analysis
  /\ UNCHANGED swVars

Max(a, b) == IF a >= b THEN a ELSE b
Min(a, b) == IF a <= b THEN a ELSE b
MinOf(S) == CHOOSE x \in S : \A y \in S : x <= y

\* ------------------------------------------------- strings of the store
\* a string is the sequence of its characters; the empty string stands for
\* an absent item too, both being falsy in getItem(key)||'default'
NoItem == <<>>
DigitChar(d) == <<"0", "1", "2", "3", "4", "5", "6", "7", "8", "9">>[d + 1]
IsDigit(c) == \E d \in 0..9 : DigitChar(d) = c
DigitValue(c) == CHOOSE d \in 0..9 : DigitChar(d) = c

RECURSIVE Decimal(_)
Decimal(n) ==
  IF n < 10 THEN <<DigitChar(n)>>
  ELSE Decimal(n \div 10) \o <<DigitChar(n % 10)>>

\* variant: the last digit of two or more is lost
StringOf_Truncated(n) ==
  IF n < 0 THEN <<"-">> \o Decimal(0 - n)
  ELSE IF n < 10 THEN Decimal(n) ELSE Decimal(n \div 10)

\* String(n) of an integer
StringOf(n) == IF n < 0 THEN <<"-">> \o Decimal(0 - n) ELSE Decimal(n)

RECURSIVE ParseDigits(_, _)
ParseDigits(str, acc) ==
  IF str = <<>> \/ ~IsDigit(Head(str)) THEN acc
  ELSE ParseDigits(Tail(str), 10 * acc + DigitValue(Head(str)))

\* parseInt(str, 10): leading white space is skipped, then an optional sign
\* and the longest run of digits after it; NaN when there is no digit. The
\* white space is that of ECMAScript (WhiteSpace and LineTerminator); a
\* character that has no escape in a string here is the element named by
\* its code point, "U+00A0" for the no-break space
ParseInt(str) ==
  LET WhiteSpace == {" ", "\t", "\n", "\f", "\r",
                     "U+000B", "U+00A0", "U+1680", "U+2000", "U+2001",
                     "U+2002", "U+2003", "U+2004", "U+2005", "U+2006",
                     "U+2007", "U+2008", "U+2009", "U+200A", "U+2028",
                     "U+2029", "U+202F", "U+205F", "U+3000", "U+FEFF"}
      RECURSIVE Trim(_)
      Trim(t) == IF t # <<>> /\ Head(t) \in WhiteSpace THEN Trim(Tail(t)) ELSE t
      rest == Trim(str)
      neg  == rest # <<>> /\ Head(rest) = "-"
      body == IF rest # <<>> /\ Head(rest) \in {"-", "+"} THEN Tail(rest) ELSE rest
  IN  IF body = <<>> \/ ~IsDigit(Head(body)) THEN [nan |-> TRUE, val |-> 0]
      ELSE [nan |-> FALSE,
            val |-> IF neg THEN 0 - ParseDigits(body, 0)
                    ELSE ParseDigits(body, 0)]

\* str || dflt
OrDefault(str, dflt) == IF str = <<>> THEN dflt ELSE str

\* ------------------------------------------------------ class list, tone
\* classList.add('fade'): a change of the class starts a transition
AddFade(s, el) ==
  IF s.fade[el] THEN s
  ELSE [s EXCEPT !.fade[el] = TRUE, !.transit[el] = TRUE]

\* classList.remove('fade')
RemoveFade(s, el) ==
  IF s.fade[el] THEN [s EXCEPT !.fade[el] = FALSE, !.transit[el] = TRUE]
  ELSE s

\* analyzeTone(img): 'light', 'dark' or null, by the pixels of the image
AnalyzeTone(s, img) == s.sample

\* ------------------------------------------------ numbers of the script
\* The numbers of analyzeTone are IEEE-754 doubles that are zero or positive.
\* [h, l, e] is the double (h * 2^28 + l) * 2^e, where the significand
\* h * 2^28 + l has 53 bits (2^52 <= h * 2^28 + l < 2^53); zero is
\* [h |-> 0, l |-> 0, e |-> 0].

\* the last step of every operation: the 53 leading bits qh * 2^28 + ql of
\* the exact result, one more in the last place when up
DRound(qh, ql, e, up) ==
  IF ~up THEN [h |-> qh, l |-> ql, e |-> e]
  ELSE IF ql + 1 < 2^28 THEN [h |-> qh, l |-> ql + 1, e |-> e]
  ELSE IF qh + 1 < 2^25 THEN [h |-> qh + 1, l |-> 0, e |-> e]
  ELSE [h |-> 2^24, l |-> 0, e |-> e + 1]

\* x + y, rounded to the nearest double, a tie to the even one: the
\* significand of the smaller exponent is shifted right behind three more
\* bits, the last of which is set when a bit that was shifted out is set
DAdd(x, y) ==
  IF x.h = 0 THEN y
  ELSE IF y.h = 0 THEN x
  ELSE
    LET a  == IF x.e >= y.e THEN x ELSE y
        b  == IF x.e >= y.e THEN y ELSE x
        d  == a.e - b.e
        Ha == a.h * 8 + a.l \div 2^25
        La == (a.l % 2^25) * 8
        Hb == b.h * 8 + b.l \div 2^25
        Lb == (b.l % 2^25) * 8
        H1 == IF d >= 28 THEN 0 ELSE Hb
        L1 == IF d >= 28 THEN Hb ELSE Lb
        r  == IF d >= 28 THEN d - 28 ELSE d
        H2 == H1 \div 2^r
        L2 == L1 \div 2^r + (H1 % 2^r) * 2^(28 - r)
        st == (d >= 28 /\ Lb # 0) \/ L1 % 2^r # 0
        L3 == IF st /\ L2 % 2 = 0 THEN L2 + 1 ELSE L2
        Ht == Ha + H2 + (La + L3) \div 2^28
        Lt == (La + L3) % 2^28
        up == Ht >= 2^28
        L4 == Lt \div 2 + (Ht % 2) * 2^27
        Hn == IF up THEN Ht \div 2 ELSE Ht
        Ln == IF ~up THEN Lt
              ELSE IF Lt % 2 = 1 /\ L4 % 2 = 0 THEN L4 + 1 ELSE L4
        g  == Ln % 8
        ql == Ln \div 8 + (Hn % 8) * 2^25
    IN  IF d > 55 THEN a
        ELSE DRound(Hn \div 8, ql, IF up THEN a.e + 1 ELSE a.e,
                    g > 4 \/ (g = 4 /\ ql % 2 = 1))

\* x * y, rounded to the nearest double, a tie to the even one: the exact
\* product of the two significands, by their pieces of 14 bits
DMul(x, y) ==
  IF x.h = 0 \/ y.h = 0 THEN [h |-> 0, l |-> 0, e |-> 0]
  ELSE
    LET a == <<x.l % 2^14, x.l \div 2^14, x.h % 2^14, x.h \div 2^14>>
        b == <<y.l % 2^14, y.l \div 2^14, y.h % 2^14, y.h \div 2^14>>
        t0 == a[1] * b[1]
        t1 == t0 \div 2^14 + a[1] * b[2] + a[2] * b[1]
        t2 == t1 \div 2^14 + a[1] * b[3] + a[2] * b[2] + a[3] * b[1]
        t3 == t2 \div 2^14 + a[1] * b[4] + a[2] * b[3] + a[3] * b[2]
                           + a[4] * b[1]
        t4 == t3 \div 2^14 + a[2] * b[4] + a[3] * b[3] + a[4] * b[2]
        t5 == t4 \div 2^14 + a[3] * b[4] + a[4] * b[3]
        t6 == t5 \div 2^14 + a[4] * b[4]
        p7 == t6 \div 2^14
        s  == IF p7 >= 128 THEN 11 ELSE 10
        X  == (t3 % 2^14) + (t4 % 2^14) * 2^14
        Y  == (t5 % 2^14) + (t6 % 2^14) * 2^14
        ql == X \div 2^s + (Y % 2^s) * 2^(28 - s)
        qh == Y \div 2^s + p7 * 2^(28 - s)
        r  == X % 2^s
        rest == t0 % 2^14 # 0 \/ t1 % 2^14 # 0 \/ t2 % 2^14 # 0
    IN  DRound(qh, ql, x.e + y.e + 42 + s,
               r > 2^(s - 1) \/ (r = 2^(s - 1) /\ (rest \/ ql % 2 = 1)))

\* x / n for a whole number n in 1..2047, rounded to the nearest double, a
\* tie to the even one: the long division of the significand, 14 more bits
\* behind it, by n
DDiv(x, n) ==
  IF x.h = 0 THEN x
  ELSE
    LET c4 == x.h \div 2^14
        c3 == (c4 % n) * 2^14 + (x.h % 2^14)
        c2 == (c3 % n) * 2^14 + x.l \div 2^14
        c1 == (c2 % n) * 2^14 + (x.l % 2^14)
        c0 == (c1 % n) * 2^14
        top == (c4 \div n) * 2^14 + c3 \div n
        s  == (CHOOSE k \in 14..25 : 2^(k - 1) <= top /\ top < 2^k) - 11
        X0 == c0 \div n + (c1 \div n) * 2^14
        X1 == c2 \div n + (c3 \div n) * 2^14
        ql == X0 \div 2^s + (X1 % 2^s) * 2^(28 - s)
        qh == X1 \div 2^s + (c4 \div n) * 2^(28 - s)
        r  == (c0 \div n) % 2^s
    IN  DRound(qh, ql, x.e - 14 + s,
               r > 2^(s - 1) \/
                 (r = 2^(s - 1) /\ (c0 % n # 0 \/ ql % 2 = 1)))

\* x > y
DGreater(x, y) ==
  IF x.h = 0 THEN FALSE
  ELSE IF y.h = 0 THEN TRUE
  ELSE x.e > y.e \/ (x.e = y.e /\ (x.h > y.h \/ (x.h = y.h /\ x.l > y.l)))

\* toLin(v) of the channel value v in 0..255:
\*   v /= 255; v <= 0.04045 ? v/12.92 : Math.pow((v+0.055)/1.055, 2.4)
\* lin holds the doubles of the first branch, <<h, l, e>> for v = 0..10,
\* where v/255 <= 0.04045. Math.pow is an approximation the engine chooses:
\* it returns one of the two doubles next to the power of its arguments, and
\* the same one on every call. below holds, for v = 11..255, the greatest
\* double that is not above the power of the double (v/255+0.055)/1.055 to
\* the double 2.4; with up the engine returns the next double above it. For
\* v = 255 the argument is 1 and the power the double 1 itself
ToLin(v, up) ==
  LET lin == <<
        <<0, 0, 0>>, <<20858215, 130119415, -64>>,
        <<20858215, 130119415, -63>>, <<31287323, 60961394, -63>>,
        <<20858215, 130119415, -62>>, <<26072769, 95540404, -62>>,
        <<31287323, 60961394, -62>>, <<18250938, 147408920, -61>>,
        <<20858215, 130119415, -61>>, <<23465492, 112829909, -61>>,
        <<26072769, 95540404, -61>> >>
      below == <<
        <<28746523, 86351000, -61>>, <<31580957, 118266333, -61>>,
        <<17286027, 260408232, -60>>, <<18861099, 250438689, -60>>,
        <<20516858, 261481080, -60>>, <<22254444, 209439015, -60>>,
        <<24074973, 189843732, -60>>, <<25979540, 3257697, -60>>,
        <<27969216, 263811920, -60>>, <<30045057, 262103083, -60>>,
        <<32208097, 101284047, -60>>, <<17229675, 198873784, -59>>,
        <<18399909, 176848964, -59>>, <<19615241, 188680930, -59>>,
        <<20876155, 62777700, -59>>, <<22183126, 11504517, -59>>,
        <<23536622, 177026824, -59>>, <<24937106, 171816627, -59>>,
        <<26385032, 224900384, -59>>, <<27880849, 176166588, -59>>,
        <<29424999, 77200054, -59>>, <<31017917, 251491341, -59>>,
        <<32660036, 9013310, -59>>, <<17175889, 57853587, -58>>,
        <<18046782, 79875298, -58>>, <<18942904, 105034098, -58>>,
        <<19864460, 28198588, -58>>, <<20811651, 163027979, -58>>,
        <<21784678, 188653475, -58>>, <<22783738, 242828051, -58>>,
        <<23809027, 135081454, -58>>, <<24860737, 169604012, -58>>,
        <<25939060, 88255962, -58>>, <<27044184, 160286900, -58>>,
        <<28176297, 123846687, -58>>, <<29335584, 5864409, -58>>,
        <<30522227, 135982111, -58>>, <<31736409, 86145994, -58>>,
        <<32978309, 25551285, -58>>, <<17124052, 98003063, -57>>,
        <<17772986, 59178790, -57>>, <<18436043, 107181178, -57>>,
        <<19113310, 103441962, -57>>, <<19804872, 236227856, -57>>,
        <<20510815, 220326607, -57>>, <<21231223, 107155710, -57>>,
        <<21966179, 20949199, -57>>, <<22715765, 163208911, -57>>,
        <<23480065, 11687150, -57>>, <<24259158, 203569646, -57>>,
        <<25053127, 123544615, -57>>, <<25862051, 55134983, -57>>,
        <<26686009, 110672332, -57>>, <<27525080, 234886025, -57>>,
        <<28379343, 208371644, -57>>, <<29248875, 187815202, -57>>,
        <<30133753, 172365554, -57>>, <<31034054, 6772786, -57>>,
        <<31949852, 189732574, -57>>, <<32881224, 266215495, -57>>,
        <<16914122, 220464996, -56>>, <<17395494, 119453717, -56>>,
        <<17884764, 59396497, -56>>, <<18381968, 200850658, -56>>,
        <<18887144, 99997402, -56>>, <<19400327, 52042066, -56>>,
        <<19921553, 18659659, -56>>, <<20450857, 166018961, -56>>,
        <<20988276, 60596495, -56>>, <<21533844, 12442618, -56>>,
        <<22087596, 2498137, -56>>, <<22649566, 220494507, -56>>,
        <<23219790, 260648660, -56>>, <<23798302, 196379005, -56>>,
        <<24385136, 44382672, -56>>, <<24980325, 33994023, -56>>,
        <<25583903, 71212649, -56>>, <<26195904, 8014447, -56>>,
        <<26816360, 180075657, -56>>, <<27445306, 65427052, -56>>,
        <<28082773, 164312644, -56>>, <<28728795, 120931844, -56>>,
        <<29383404, 66387549, -56>>, <<30046632, 82567215, -56>>,
        <<30718511, 202876581, -56>>, <<31399074, 144520375, -56>>,
        <<32088352, 114507779, -56>>, <<32786377, 5028685, -56>>,
        <<33493179, 199426754, -56>>, <<17104395, 249554417, -55>>,
        <<17466622, 62090639, -55>>, <<17833284, 64995438, -55>>,
        <<18204397, 93253599, -55>>, <<18579976, 228982512, -55>>,
        <<18960037, 264851786, -55>>, <<19344595, 241238307, -55>>,
        <<19733665, 178068731, -55>>, <<20127262, 75091444, -55>>,
        <<20525400, 180578125, -55>>, <<20928095, 186277845, -55>>,
        <<21335362, 32978399, -55>>, <<21747214, 179191410, -55>>,
        <<22163667, 259219507, -55>>, <<22584736, 157137569, -55>>,
        <<23010435, 7027259, -55>>, <<23440777, 193206827, -55>>,
        <<23875779, 8278975, -55>>, <<24315453, 69270655, -55>>,
        <<24759814, 170365698, -55>>, <<25208877, 88423260, -55>>,
        <<25662655, 120056639, -55>>, <<26121163, 8095353, -55>>,
        <<26584414, 15526922, -55>>, <<27052422, 120386685, -55>>,
        <<27525202, 15950235, -55>>, <<28002766, 184664066, -55>>,
        <<28485130, 19282698, -55>>, <<28972305, 238969644, -55>>,
        <<29464307, 205121391, -55>>, <<29961149, 69026302, -55>>,
        <<30462843, 235165777, -55>>, <<30969405, 19205991, -55>>,
        <<31480846, 64082911, -55>>, <<31997180, 192681712, -55>>,
        <<32518421, 213303251, -55>>, <<33044582, 188256844, -55>>,
        <<16787838, 82789714, -54>>, <<17055858, 89593722, -54>>,
        <<17326357, 258730809, -54>>, <<17599343, 190608221, -54>>,
        <<17874822, 15664025, -54>>, <<18152799, 126002598, -54>>,
        <<18433282, 101722519, -54>>, <<18716277, 53162416, -54>>,
        <<19001790, 84097510, -54>>, <<19289828, 23370467, -54>>,
        <<19580396, 230263032, -54>>, <<19873502, 252382936, -54>>,
        <<20169152, 167904312, -54>>, <<20467352, 48758960, -54>>,
        <<20768107, 229132928, -54>>, <<21071425, 231784892, -54>>,
        <<21377312, 110282670, -54>>, <<21685773, 180626076, -54>>,
        <<21996815, 215997973, -54>>, <<22310444, 252127144, -54>>,
        <<22626667, 50473047, -54>>, <<22945488, 172022443, -54>>,
        <<23266915, 98295162, -54>>, <<23590953, 110445474, -54>>,
        <<23917608, 215572601, -54>>, <<24246887, 146772316, -54>>,
        <<24578795, 168494121, -54>>, <<24913339, 2849477, -54>>,
        <<25250523, 171838424, -54>>, <<25590355, 118350000, -54>>,
        <<25932840, 85258342, -54>>, <<26277984, 41728077, -54>>,
        <<26625792, 220131761, -54>>, <<26976272, 42353952, -54>>,
        <<27329427, 267320061, -54>>, <<27685266, 38250942, -54>>,
        <<28043792, 103932309, -54>>, <<28405012, 134403530, -54>>,
        <<28768932, 63177659, -54>>, <<29135557, 87283588, -54>>,
        <<29504893, 130436700, -54>>, <<29876946, 111515358, -54>>,
        <<30251721, 213036785, -54>>, <<30629225, 75890628, -54>>,
        <<31009462, 141555585, -54>>, <<31392439, 41525516, -54>>,
        <<31778160, 207960516, -54>>, <<32166632, 263111973, -54>>,
        <<32557861, 93101732, -54>>, <<32951851, 116394370, -54>>,
        <<33348608, 210091714, -54>>, <<16874069, 123419825, -53>>,
        <<17075223, 181649483, -53>>, <<17277769, 211654711, -53>>,
        <<17481710, 143179855, -53>>, <<17687048, 172246216, -53>>,
        <<17893786, 224297962, -53>>, <<18101927, 222654190, -53>>,
        <<18311474, 88525329, -53>>, <<18522429, 9464794, -53>>,
        <<18734794, 170949508, -53>>, <<18948573, 219524813, -53>>,
        <<19163769, 68126417, -53>>, <<19380383, 164531274, -53>>,
        <<19598419, 149195527, -53>>, <<19817879, 197446815, -53>>,
        <<20038766, 214192780, -53>>, <<20261083, 102371186, -53>>,
        <<20484832, 31399884, -53>>, <<20710015, 168755691, -53>>,
        <<20936636, 143117626, -53>>, <<21164697, 118122743, -53>>,
        <<21394200, 255509036, -53>>, <<21625149, 178258194, -53>>,
        <<21857546, 44350944, -53>>, <<22091393, 9909477, -53>>,
        <<22326692, 229210651, -53>>, <<22563448, 49392675, -53>>,
        <<22801661, 157951640, -53>>, <<23041335, 166835180, -53>>,
        <<23282472, 223067799, -53>>, <<23525075, 203456975, -53>>,
        <<23769146, 251476394, -53>>, <<24014688, 240407217, -53>>,
        <<24261704, 41785589, -53>>, <<24510195, 62285466, -53>>,
        <<24760164, 169988578, -53>>, <<25011614, 231266992, -53>>,
        <<25264548, 110794631, -53>>, <<25518967, 208429604, -53>>,
        <<25774875, 117048183, -53>>, <<26032273, 233168712, -53>>,
        <<26291165, 146349892, -53>>, <<26551552, 249814436, -53>>,
        <<26813438, 129847143, -53>>, <<27076824, 176418300, -53>>,
        <<27341713, 241016991, -53>>, <<27608108, 173532461, -53>>,
        <<27876011, 90699919, -53>>, <<28145424, 107675330, -53>>,
        <<28416350, 69610088, -53>>, <<28688791, 88531959, -53>>,
        <<28962750, 6484101, -53>>, <<29238228, 200841243, -53>>,
        <<29515229, 242142139, -53>>, <<29793755, 236276465, -53>>,
        <<30073809, 19187978, -53>>, <<30355391, 230625776, -53>>,
        <<30638506, 166669954, -53>>, <<30923155, 195659988, -53>>,
        <<31209341, 147591124, -53>>, <<31497066, 119429797, -53>>,
        <<31786332, 206687156, -53>>, <<32077142, 234992464, -53>>,
        <<32369499, 28537365, -53>>, <<32663403, 215390941, -53>>,
        <<32958859, 80024677, -53>>, <<33255867, 247675570, -53>>,
        <<16777216, 0, -52>> >>
      t == IF 100000 * v <= 4045 * 255 THEN lin[v + 1] ELSE below[v - 10]
  IN  DRound(t[1], t[2], t[3], up /\ 100000 * v > 4045 * 255 /\ v # 255)

\* L = 0.2126*r + 0.7152*g + 0.0722*b of one pixel, in an engine whose
\* Math.pow returns the double above the power for the channel values in up
Luminance(px, up) ==
  DAdd(DAdd(DMul([h |-> 28534688, l |-> 261134012, e |-> 0 - 55],
                 ToLin(px[1], px[1] \in up)),
            DMul([h |-> 23998129, l |-> 205728933, e |-> 0 - 53],
                 ToLin(px[2], px[2] \in up))),
       DMul([h |-> 19381039, l |-> 247819613, e |-> 0 - 56],
            ToLin(px[3], px[3] \in up)))

\* the loop over data: sum += L for every pixel, from the first to the
\* last. L of two equal pixels is the same number and is computed once. The
\* range i..j is halved to bound the depth of the recursion: the additions
\* are made in the order of the pixels, and the sum over the first half is
\* evaluated (by the test on it) before the second half is entered
SumLuminance(data, up) ==
  LET lum == [px \in {data[i] : i \in DOMAIN data} |-> Luminance(px, up)]
      RECURSIVE Loop(_, _, _)
      Loop(sum, i, j) ==
        IF i = j THEN DAdd(sum, lum[data[i]])
        ELSE LET half == Loop(sum, i, (i + j) \div 2)
             IN  IF half.h >= 0 THEN Loop(half, (i + j) \div 2 + 1, j)
                 ELSE half
  IN  IF data = <<>> THEN [h |-> 0, l |-> 0, e |-> 0]
      ELSE Loop([h |-> 0, l |-> 0, e |-> 0], 1, Len(data))

\* variant: avg >= 0.6
Classify_AtLeast(sum, n) ==
  IF ~DGreater([h |-> 20132659, l |-> 53687091, e |-> 0 - 53], DDiv(sum, n))
  THEN "light" ELSE "dark"

\* const avg = sum / n; return avg > 0.6 ? 'light' : 'dark'
Classify(sum, n) ==
  IF DGreater(DDiv(sum, n), [h |-> 20132659, l |-> 53687091, e |-> 0 - 53])
  THEN "light" ELSE "dark"

\* analyzeTone on a size x size canvas: null without a 2d context or when
\* the pixels cannot be read, else the class of the average luminance, in
\* the engine a.up
AnalyzeToneOf(a) ==
  IF ~a.readable THEN NULL
  ELSE Classify(SumLuminance(a.data, a.up), a.size * a.size)

\* applyTone(tone)
ApplyTone(s, t) == IF t = NULL THEN s ELSE [s EXCEPT !.tone = t]

\* ensureBgBuffers(): the page has #bgLayer; the buffer is created hidden
EnsureBgBuffers(s) ==
  IF s.bgPrimary # NULL THEN s
  ELSE [s EXCEPT !.bgPrimary = "bgLayer", !.bgBuffer = "bgLayer2",
                 !.fade["bgLayer2"] = TRUE]

\* ------------------------------------------------------------- resolver
\* variant: the URL is built for the provider under the cursor, which is
\* advanced afterwards
NextUrl_PostIncrement(s) ==
  LET i == (s.providerIdx + 1) % ProviderCount
  IN  [s |-> [s EXCEPT !.providerIdx = i], url |-> ProviderUrl(s.providerIdx)]

\* nextUrl(): advance the cursor, then build the URL of that provider
NextUrl(s) ==
  LET i == (s.providerIdx + 1) % ProviderCount
  IN  [s |-> [s EXCEPT !.providerIdx = i], url |-> ProviderUrl(i)]

\* variant: the budget one too large
TriesBudget_OneMore(maxTries) ==
  Max(1, IF maxTries = UNDEF \/ maxTries = 0 THEN ProviderCount ELSE maxTries)
  + 1

\* let tries = Math.max(1, maxTries||BG_PROVIDERS.length)
TriesBudget(maxTries) ==
  Max(1, IF maxTries = UNDEF \/ maxTries = 0 THEN ProviderCount ELSE maxTries)

\* history of a call: the URLs it has requested, kept for direct calls
Hist(owner, log, url) == IF owner = "caller" THEN Append(log, url) ELSE <<>>

\* history of a call: its failed attempts, counted for direct calls
Failed(co) ==
  [co EXCEPT !.fails = IF co.owner = "caller" THEN @ + 1 ELSE 0]

\* one call in flight moves on
Replace(b, co, co2) == (b (-) SetToBag({co})) (+) SetToBag({co2})

\* a call of the page leaves the bag when it settles; a direct call stays
\* with its outcome
Settle(b, co, outcome, url) ==
  IF co.owner = "caller"
  THEN Replace(b, co, [co EXCEPT !.status = outcome, !.res = url])
  ELSE b (-) SetToBag({co})

\* loadNextWithRetry(maxTries) up to its first await: the first pass of the
\* loop takes one try and starts the load of the next provider
LoadNextWithRetry(s, owner, n, maxTries) ==
  LET nu == NextUrl(s)
      co == [owner |-> owner, n |-> n, maxTries |-> maxTries,
             tries |-> TriesBudget(maxTries) - 1, status |-> "provider",
             url |-> nu.url, log |-> Hist(owner, <<>>, nu.url),
             fails |-> 0, res |-> NoUrl]
  IN  [nu.s EXCEPT !.loads = @ (+) SetToBag({co})]

\* variant: the loop test written while(tries-- > 1)
RetryAfterError_EarlyFallback(s, co) ==
  IF co.tries > 1
  THEN LET nu == NextUrl(s)
       IN  [nu.s EXCEPT !.loads = Replace(@, co,
              [co EXCEPT !.tries = @ - 1, !.url = nu.url,
                         !.log = Hist(co.owner, @, nu.url)])]
  ELSE [s EXCEPT !.loads = Replace(@, co,
          [co EXCEPT !.tries = @ - 1, !.status = "fallback",
                     !.url = FALLBACK_BG,
                     !.log = Hist(co.owner, @, FALLBACK_BG)])]

\* variant: after an error the call waits for nothing and never settles
RetryAfterError_Hangs(s, co) ==
  [s EXCEPT !.loads = Replace(@, co, [co EXCEPT !.status = "hung"])]

\* the catch of the loop and the loop test while(tries-- > 0): another
\* provider while tries are left, else the fallback asset
RetryAfterError(s, co) ==
  IF co.tries > 0
  THEN LET nu == NextUrl(s)
       IN  [nu.s EXCEPT !.loads = Replace(@, co,
              [co EXCEPT !.tries = @ - 1, !.url = nu.url,
                         !.log = Hist(co.owner, @, nu.url)])]
  ELSE [s EXCEPT !.loads = Replace(@, co,
          [co EXCEPT !.tries = @ - 1, !.status = "fallback",
                     !.url = FALLBACK_BG,
                     !.log = Hist(co.owner, @, FALLBACK_BG)])]

\* history: a preload in flight is superseded (n = 1) once a newer preload
\* (n = 0) is started
Superseded(co) == IF co.owner = "preload" THEN [co EXCEPT !.n = 1] ELSE co

\* variant: the refill is started whatever the cache holds
StartProactivePreload_Unguarded(s) ==
  LoadNextWithRetry([s EXCEPT !.loads = BagOfAll(Superseded, @)],
                    "preload", 0, UNDEF)

\* variant: no refill
StartProactivePreload_Never(s) == s

\* startProactivePreload()
StartProactivePreload(s) ==
  IF s.preloaded # NoRes THEN s
  ELSE LoadNextWithRetry([s EXCEPT !.loads = BagOfAll(Superseded, @)],
                         "preload", 0, UNDEF)

\* ---------------------------------------------------------- coordinator
\* crossfadeTo(img, url), on behalf of swap k
CrossfadeTo(s, res, k) ==
  IF s.bgPrimary = NULL \/ s.bgBuffer = NULL THEN s
  ELSE
    LET s1 == [s EXCEPT !.bgImage[s.bgBuffer] = res.url]
        t  == AnalyzeTone(s1, res)
        s2 == ApplyTone(s1, IF t = NULL THEN "dark" ELSE t)
        s3 == AddFade(s2, s.bgPrimary)
        s4 == RemoveFade(s3, s.bgBuffer)
    IN  [s4 EXCEPT !.xf = (k :> [old |-> s.bgPrimary, new |-> s.bgBuffer])
                           @@ @,
                   !.listeners = @ \cup {k},
                   !.timers = Append(@, k),
                   !.fading = @ \cup {k},
                   !.mark = IF t = NULL THEN "toneFailed" ELSE @]

\* variant: a request is also queued while queued is still set
UpdateBg_QueuedBlocks(s) ==
  LET s0 == EnsureBgBuffers(s)
  IN  IF s0.switching \/ s0.queued
      THEN [s0 EXCEPT !.queued = TRUE, !.absorbed = @ + 1]
      ELSE
        LET k  == s0.nSwaps + 1
            s1 == [s0 EXCEPT !.switching = TRUE, !.nSwaps = k,
                             !.active = @ \cup {k}, !.absorbed = 0]
        IN  IF s1.preloaded # NoRes
            THEN CrossfadeTo([s1 EXCEPT !.preloaded = NoRes],
                             s1.preloaded, k)
            ELSE LoadNextWithRetry(s1, "swap", k, UNDEF)

\* variant: a request during a swap flips the queue flag
UpdateBg_QueuedFlips(s) ==
  LET s0 == EnsureBgBuffers(s)
  IN  IF s0.switching
      THEN [s0 EXCEPT !.queued = ~@, !.absorbed = @ + 1]
      ELSE
        LET k  == s0.nSwaps + 1
            s1 == [s0 EXCEPT !.switching = TRUE, !.nSwaps = k,
                             !.active = @ \cup {k}, !.absorbed = 0]
        IN  IF s1.preloaded # NoRes
            THEN CrossfadeTo([s1 EXCEPT !.preloaded = NoRes,
                                        !.mark = "consumed"],
                             s1.preloaded, k)
            ELSE LoadNextWithRetry(s1, "swap", k, UNDEF)

\* variant: the cache is not looked at, every swap loads its own image
UpdateBg_AlwaysLoads(s) ==
  LET s0 == EnsureBgBuffers(s)
  IN  IF s0.switching
      THEN [s0 EXCEPT !.queued = TRUE, !.absorbed = @ + 1]
      ELSE
        LET k  == s0.nSwaps + 1
            s1 == [s0 EXCEPT !.switching = TRUE, !.nSwaps = k,
                             !.active = @ \cup {k}, !.absorbed = 0]
        IN  LoadNextWithRetry(s1, "swap", k, UNDEF)

\* the preload loads in flight
NPreloads(b) ==
  LET S == {co \in BagToSet(b) : co.owner = "preload"}
  IN  BagCardinality([co \in S |-> b[co]])

\* variant: with a refill in flight the swap starts no load of its own
UpdateBg_WaitsForRefill(s) ==
  LET s0 == EnsureBgBuffers(s)
  IN  IF s0.switching
      THEN [s0 EXCEPT !.queued = TRUE, !.absorbed = @ + 1]
      ELSE
        LET k  == s0.nSwaps + 1
            s1 == [s0 EXCEPT !.switching = TRUE, !.nSwaps = k,
                             !.active = @ \cup {k}, !.absorbed = 0]
        IN  IF s1.preloaded # NoRes
            THEN CrossfadeTo([s1 EXCEPT !.preloaded = NoRes,
                                        !.mark = "consumed"],
                             s1.preloaded, k)
            ELSE IF NPreloads(s1.loads) >= 1 THEN s1
            ELSE LoadNextWithRetry(s1, "swap", k, UNDEF)

\* updateBg() up to its first await
UpdateBg(s) ==
  LET s0 == EnsureBgBuffers(s)
  IN  IF s0.switching
      THEN [s0 EXCEPT !.queued = TRUE, !.absorbed = @ + 1]
      ELSE
        LET k  == s0.nSwaps + 1
            s1 == [s0 EXCEPT !.switching = TRUE, !.nSwaps = k,
                             !.active = @ \cup {k}, !.absorbed = 0]
        IN  IF s1.preloaded # NoRes
            THEN CrossfadeTo([s1 EXCEPT !.preloaded = NoRes,
                                        !.mark = "consumed"],
                             s1.preloaded, k)
            ELSE LoadNextWithRetry(s1, "swap", k, UNDEF)

\* updateBg() after its await resolved with res
UpdateBgResume(s, res, k) ==
  CrossfadeTo([s EXCEPT !.preloaded = NoRes, !.mark = "resumed"], res, k)

\* variant: the catch branch leaves switching set
UpdateBgCatch_KeepsSwitching(s, k) ==
  LET s1 == [s EXCEPT !.active = @ \ {k}, !.fading = @ \ {k}]
      s2 == IF s1.bgPrimary = NULL THEN s1
            ELSE RemoveFade([s1 EXCEPT !.bgImage[s1.bgPrimary] = FALLBACK_BG],
                            s1.bgPrimary)
  IN  StartProactivePreload(s2)

\* variant: the catch branch starts a refill whatever the cache holds
UpdateBgCatch_RefillsAlways(s, k) ==
  LET s1 == [s EXCEPT !.switching = FALSE, !.active = @ \ {k},
                      !.fading = @ \ {k}]
      s2 == IF s1.bgPrimary = NULL THEN s1
            ELSE RemoveFade([s1 EXCEPT !.bgImage[s1.bgPrimary] = FALLBACK_BG],
                            s1.bgPrimary)
  IN  StartProactivePreload_Unguarded(s2)

\* the catch branch of updateBg(), swap k
UpdateBgCatch(s, k) ==
  LET s1 == [s EXCEPT !.switching = FALSE, !.active = @ \ {k},
                      !.fading = @ \ {k}]
      s2 == IF s1.bgPrimary = NULL THEN s1
            ELSE RemoveFade([s1 EXCEPT !.bgImage[s1.bgPrimary] = FALLBACK_BG],
                            s1.bgPrimary)
  IN  StartProactivePreload(s2)

\* the closures that can still be called
Live(s) ==
  [s EXCEPT !.xf = [k \in s.listeners \cup {s.timers[i] : i \in DOMAIN s.timers}
                      |-> @[k]]]

\* onDone of the crossfade of swap k
OnDone(s, k) ==
  LET x  == s.xf[k]
      s1 == AddFade([s EXCEPT !.listeners = @ \ {k}], x.old)
      s2 == [s1 EXCEPT !.bgPrimary = x.new, !.bgBuffer = x.old,
                       !.switching = FALSE, !.active = @ \ {k},
                       !.fading = @ \ {k}]
      s3 == IF s2.queued THEN UpdateBg([s2 EXCEPT !.queued = FALSE]) ELSE s2
  IN  StartProactivePreload([s3 EXCEPT !.preloaded = NoRes])

\* variant: no safety net
SafetyNet_Dropped(s, c) == s

\* setTimeout(()=>{ if(switching){ onDone(); } }, 700) of crossfade c
SafetyNet(s, c) == IF s.switching THEN OnDone(s, c) ELSE s

\* the transitionend listeners of one dispatch, in registration order
RECURSIVE Dispatch(_, _)
Dispatch(s, cs) ==
  IF cs = {} THEN s
  ELSE LET c == MinOf(cs) IN Dispatch(OnDone(s, c), cs \ {c})

\* the id setInterval returns: one the browser has not in use
FreshId(s) ==
  LET ids == {s.bgTimer} \cup {tm.id : tm \in s.intervals}
  IN  1 + CHOOSE m \in ids : \A i \in ids : i <= m

\* variant: the first tick is due at once
SetInterval_Immediate(s, id, seconds) ==
  [s EXCEPT !.intervals = @ \cup
     {[id |-> id, period |-> seconds,
       due |-> IF s.now = UNDEF THEN 0 ELSE s.now,
       armedAt |-> IF s.now = UNDEF THEN 0 ELSE s.now,
       swapsAtArm |-> IF s.now = UNDEF THEN 0 ELSE s.nSwaps,
       swapsAtDue |-> 0]}]

\* setInterval(updateBg, seconds*1000): the first tick is due after one
\* period; armedAt, swapsAtArm and swapsAtDue are history
SetInterval(s, id, seconds) ==
  [s EXCEPT !.intervals = @ \cup
     {[id |-> id, period |-> seconds,
       due |-> IF s.now = UNDEF THEN 0 ELSE s.now + seconds,
       armedAt |-> IF s.now = UNDEF THEN 0 ELSE s.now,
       swapsAtArm |-> IF s.now = UNDEF THEN 0 ELSE s.nSwaps,
       swapsAtDue |-> 0]}]

\* clearInterval(id)
ClearInterval(s, id) ==
  [s EXCEPT !.intervals = {tm \in @ : tm.id # id}]

\* variant: the timer in use is not cleared
ApplyBgInterval_NoClear(s, seconds) ==
  LET s2 == [s EXCEPT !.store = StringOf(seconds)]
      id == FreshId(s2)
  IN  IF seconds > 0
      THEN [SetInterval(s2, id, seconds) EXCEPT !.bgTimer = id]
      ELSE s2

\* variant: setting the interval also drops a queued request
ApplyBgInterval_ClearsQueue(s, seconds) ==
  LET s1 == IF s.bgTimer # 0
            THEN [ClearInterval(s, s.bgTimer) EXCEPT !.bgTimer = 0]
            ELSE s
      s2 == [s1 EXCEPT !.store = StringOf(seconds), !.queued = FALSE]
      id == FreshId(s2)
  IN  IF seconds > 0
      THEN [SetInterval(s2, id, seconds) EXCEPT !.bgTimer = id]
      ELSE s2

\* applyBgInterval(seconds)
ApplyBgInterval(s, seconds) ==
  LET s1 == IF s.bgTimer # 0
            THEN [ClearInterval(s, s.bgTimer) EXCEPT !.bgTimer = 0]
            ELSE s
      s2 == [s1 EXCEPT !.store = StringOf(seconds)]
      id == FreshId(s2)
  IN  IF seconds > 0
      THEN [SetInterval(s2, id, seconds) EXCEPT !.bgTimer = id]
      ELSE s2

\* isMobileDevice(), isTabletDevice()
IsMobileDevice(s) == s.device.mobile
IsTabletDevice(s) == s.device.tablet

\* the first declaration of applyBgBlur(px) in the device-aware script, which
\* clamps; the later declaration of the same name in the same scope
\* replaces it, so no call reaches it
ApplyBgBlurClamping(s, px) ==
  LET n == Max(0, px)
      blurValue == IF IsMobileDevice(s) THEN Min(n, 6)
                   ELSE IF IsTabletDevice(s) THEN Min(n, 10) ELSE n
  IN  [s EXCEPT !.blur = blurValue, !.blurStore = StringOf(blurValue)]

\* applyBgBlur(px), the declaration every call reaches
ApplyBgBlur(s, px) ==
  LET n == Max(0, px)
  IN  [s EXCEPT !.blur = n, !.blurStore = StringOf(n)]

\* the settling of a call, with the continuation of its caller
Resolved(s, co) ==
  LET res == [url |-> co.url]
      s1  == [s EXCEPT !.loads = Settle(@, co, "resolved", res.url)]
  IN  CASE co.owner = "swap" -> UpdateBgResume(s1, res, co.n)
        [] co.owner = "preload" -> [s1 EXCEPT !.preloaded = res]
        [] OTHER -> s1

\* variant: the failure of the fallback is swallowed
Rejected_Swallowed(s, co) ==
  [s EXCEPT !.loads = Settle(@, co, "resolved", NoUrl)]

Rejected(s, co) ==
  LET s1 == [s EXCEPT !.loads = Settle(@, co, "rejected", NoUrl)]
  IN  CASE co.owner = "swap" -> UpdateBgCatch(s1, co.n)
        [] OTHER -> s1

Pending(s) ==
  {co \in BagToSet(s.loads) : co.status \in {"provider", "fallback"}}

\* ------------------------------------------------------------- actions
InitPage ==
  /\ mounted = FALSE
  /\ bgPrimary = NULL
  /\ bgBuffer = NULL
  /\ fade = [el \in Surfaces |-> FALSE]
  /\ bgImage = [el \in Surfaces |-> NoUrl]
  /\ transit = [el \in Surfaces |-> FALSE]
  /\ listeners = {}
  /\ timers = <<>>
  /\ xf = <<>>
  /\ switching = FALSE
  /\ queued = FALSE
  /\ preloaded = NoRes
  /\ bgTimer = 0
  /\ intervals = {}
  /\ blur = UNDEF
  /\ tone = NULL
  /\ loads = EmptyBag
  /\ nSwaps = 0
  /\ active = {}
  /\ fading = {}
  /\ absorbed = 0
  /\ reqs = 0
  /\ nErrors = 0
  /\ bodyTheme = NULL
  /\ ev = "step"

\* a browser in which no service worker is registered
InitNoWorker ==
  /\ swPhase = "none"
  /\ cacheNames = <<>>
  /\ cacheStore = <<>>
  /\ online = TRUE
  /\ fetches = <<>>
  /\ pendingPuts = {}
  /\ deletes = <<>>

\* the same in a browser in which no theme was ever chosen
InitCommon == InitPage /\ theme = NULL /\ InitNoWorker

\* no bitmap is under analysis
NoAnalysis ==
  [size |-> 0, data |-> <<>>, readable |-> FALSE, up |-> {}, out |-> <<>>]

\* a desktop browser with no blur stored, in a run that does not follow the
\* time
InitDesktop ==
  /\ blurStore = NoItem
  /\ device = [mobile |-> FALSE, tablet |-> FALSE]
  /\ now = UNDEF

\* what an earlier session can have left under 'dove-bg-interval'
StoredIntervals == {NoItem} \cup {StringOf(v) : v \in IntervalOptions}

\* the page before initBg: the store is what an earlier session left
Init ==
  /\ InitCommon
  /\ InitDesktop
  /\ analysis = NoAnalysis
  /\ providerIdx = 0
  /\ store \in StoredIntervals

\* the page before initBg in a session that rotates: an earlier session
\* left a positive interval in the store
InitArmed ==
  /\ InitCommon
  /\ InitDesktop
  /\ analysis = NoAnalysis
  /\ providerIdx = 0
  /\ store \in {StringOf(v) : v \in IntervalOptions \ {0}}

\* initBg
InitBg ==
  /\ ~mounted
  /\ LET s1 == ApplyTone(EnsureBgBuffers(State), "dark")
         s2 == UpdateBg(s1)
         saved == ParseInt(OrDefault(s2.store, <<"0">>))
         s3 == IF saved.nan THEN s2 ELSE ApplyBgInterval(s2, saved.val)
         savedBlur == ParseInt(OrDefault(s3.blurStore, <<"1", "2">>))
         s4 == ApplyBgBlur(s3, IF savedBlur.nan THEN 12 ELSE savedBlur.val)
         s5 == StartProactivePreload(s4)
     IN  Commit([s5 EXCEPT !.mounted = TRUE], "mounted")

\* the callback of the interval timer tm, which is updateBg; the browser
\* makes the next tick due one period on
TickStep(s, tm) ==
  UpdateBg([s EXCEPT
     !.reqs = @ + 1,
     !.intervals = (@ \ {tm}) \cup
        {[tm EXCEPT !.due = IF s.now = UNDEF THEN 0 ELSE @ + tm.period]}])

\* variant: a click starts a swap whatever is in flight
ClickStep_Unchecked(s) ==
  UpdateBg([s EXCEPT !.reqs = @ + 1, !.switching = FALSE])

\* the click listener of #bgNext: ()=> updateBg()
ClickStep(s) == UpdateBg([s EXCEPT !.reqs = @ + 1])

\* an armed interval timer fires: at any moment in a run that does not
\* follow the time, else when it is due
Tick(T, m) ==
  /\ mounted /\ reqs < m
  /\ \E tm \in intervals, t \in T :
        /\ now = UNDEF \/ tm.due = now
        /\ Commit(TickStep(With(t), tm),
                  IF ev = "swapFailed" THEN "tickAfterFail" ELSE "step")

\* click on #bgNext
Click(T, m) ==
  /\ mounted /\ reqs < m
  /\ \E t \in T : Commit(ClickStep(With(t)), "step")

\* change of #bgInterval to an option of V; e labels the step
ChangeIntervalIn(V, e) ==
  /\ mounted
  /\ \E v \in V :
        /\ StringOf(v) # store
        /\ Commit(ApplyBgInterval(State, v), e)

\* change of #bgBlur
ChangeBlur ==
  /\ mounted
  /\ \E v \in {0, 6, 12, 20} :
        /\ StringOf(v) # blurStore
        /\ Commit(ApplyBgBlur(State, v), "blur")

\* img.onload of the image a load is waiting for
ImageLoads(T) ==
  \E co \in Pending(State), t \in T :
    Commit(Live(Resolved(With(t), co)), "step")

\* img.onerror of the image a load is waiting for
ImageFails ==
  \E co \in Pending(State) :
    LET c1 == Failed(co)
        s0 == [State EXCEPT !.nErrors = @ + 1, !.loads = Replace(@, co, c1)]
    IN  IF co.status = "provider"
        THEN Commit(RetryAfterError(s0, c1), "step")
        ELSE Commit(Rejected(s0, c1),
                    IF co.owner = "swap" THEN "swapFailed" ELSE "step")

\* the same, within the number of errors of one run
ImageFailsBounded(m) == nErrors < m /\ ImageFails

\* transitionend on a surface
TransitionEnd(T) ==
  \E el \in Surfaces, t \in T :
    /\ transit[el]
    /\ LET s1 == [With(t) EXCEPT !.transit[el] = FALSE]
           cs == {c \in listeners : xf[c].new = el}
       IN  Commit(Live(Dispatch(s1, cs)), "step")

\* a transition whose transitionend never arrives
TransitionLost ==
  \E el \in Surfaces :
    /\ transit[el]
    /\ Commit([State EXCEPT !.transit[el] = FALSE], "step")

\* the oldest safety-net timer fires
SafetyNetTimer(T) ==
  /\ timers # <<>>
  /\ \E t \in T :
        Commit(Live(SafetyNet([With(t) EXCEPT !.timers = Tail(@)],
                              Head(timers))),
               IF switching /\ Head(timers) \in fading
               THEN "safetyNet" ELSE "step")

Next ==
  \/ InitBg
  \/ Tick(DarkOnly, MaxRequests)
  \/ Click(DarkOnly, MaxRequests)
  \/ ImageLoads(DarkOnly)
  \/ ImageFailsBounded(MaxErrors)
  \/ TransitionEnd(DarkOnly)
  \/ TransitionLost
  \/ SafetyNetTimer(DarkOnly)

\* the rotation with its timer armed
Spec == InitArmed /\ [][Next]_vars

NextLive ==
  \/ InitBg
  \/ Tick(DarkOnly, MaxLiveRequests)
  \/ Click(DarkOnly, MaxLiveRequests)
  \/ ChangeIntervalIn(IntervalOptions, "step")
  \/ ImageLoads(DarkOnly)
  \/ ImageFailsBounded(MaxLiveErrors)
  \/ TransitionEnd(DarkOnly)
  \/ TransitionLost
  \/ SafetyNetTimer(DarkOnly)

\* the oldest safety-net timer leaves the queue: what a SafetyNetTimer step,
\* and no other step, does to timers (every other step keeps the queue or
\* appends to it)
HeadTimerFires ==
  /\ timers # <<>>
  /\ \E q \in {Tail(timers)} \cup
               {Append(Tail(timers), k) : k \in 1..(MaxLiveRequests + 1)} :
        timers' = q

\* pending timers eventually fire; nothing else is promised
LiveSpec == Init /\ [][NextLive]_vars /\ WF_timers(HeadTimerFires)

\* a pending image load of the page delivers its image: what an ImageLoads
\* step, and no other step, does to loads and nErrors
LoadDelivers ==
  /\ nErrors' = nErrors
  /\ \E co \in Pending(State) : loads' = loads (-) SetToBag({co})

\* pending timers eventually fire and pending image loads eventually
\* deliver
LiveLoadSpec ==
  /\ Init /\ [][NextLive]_vars
  /\ WF_timers(HeadTimerFires)
  /\ WF_<<loads, nErrors>>(LoadDelivers)

\* ------------------------------------------ images of every tone
\* every image loads; its analysis gives 'light', 'dark' or fails
NextTone ==
  \/ InitBg
  \/ Tick(Tones, MaxToneRequests)
  \/ Click(Tones, MaxToneRequests)
  \/ ImageLoads(Tones)
  \/ TransitionEnd(Tones)
  \/ TransitionLost
  \/ SafetyNetTimer(Tones)

SpecTone == Init /\ [][NextTone]_vars

\* ------------------------------------------ the page and its two settings
\* the page is loaded again: scripts, timers, loads and DOM start afresh,
\* localStorage and the browser stay
Reload ==
  /\ mounted
  /\ mounted' = FALSE
  /\ bgPrimary' = NULL
  /\ bgBuffer' = NULL
  /\ fade' = [el \in Surfaces |-> FALSE]
  /\ bgImage' = [el \in Surfaces |-> NoUrl]
  /\ transit' = [el \in Surfaces |-> FALSE]
  /\ listeners' = {}
  /\ timers' = <<>>
  /\ xf' = <<>>
  /\ switching' = FALSE
  /\ queued' = FALSE
  /\ preloaded' = NoRes
  /\ providerIdx' = 0
  /\ bgTimer' = 0
  /\ intervals' = {}
  /\ blur' = UNDEF
  /\ tone' = NULL
  /\ bodyTheme' = NULL
  /\ loads' = EmptyBag
  /\ nSwaps' = 0
  /\ active' = {}
  /\ fading' = {}
  /\ absorbed' = 0
  /\ ev' = "reload"
  /\ UNCHANGED <<store, blurStore, theme, device, now, reqs, nErrors,
                 analysis>>
  /\ UNCHANGED swVars

\* a desktop browser whose earlier session chose any of the intervals, or
\* whose item 'dove-bg-interval' was written with a leading blank
InitConfig ==
  /\ InitCommon
  /\ InitDesktop
  /\ analysis = NoAnalysis
  /\ providerIdx = 0
  /\ store \in {NoItem, <<" ", "5">>} \cup {StringOf(v) : v \in ConfigIntervals}

\* the rotation driven by its timer alone: no manual request is made
NextConfig ==
  \/ InitBg
  \/ Tick(DarkOnly, MaxConfigRequests)
  \/ ChangeIntervalIn(ConfigIntervals, "interval")
  \/ ImageLoads(DarkOnly)
  \/ TransitionEnd(DarkOnly)
  \/ TransitionLost
  \/ SafetyNetTimer(DarkOnly)
  \/ Reload

SpecConfig == InitConfig /\ [][NextConfig]_vars

\* the four answers of the two user-agent tests: a desktop, a phone, an
\* iPad or Android tablet (both patterns match), another tablet
DeviceClasses ==
  {[mobile |-> m, tablet |-> b] : m \in BOOLEAN, b \in BOOLEAN}

\* any device, on its first visit or with the settings of an earlier one
InitBlur ==
  /\ InitCommon
  /\ analysis = NoAnalysis
  /\ providerIdx = 0
  /\ store \in {NoItem, StringOf(5)}
  /\ blurStore \in {NoItem, StringOf(6)}
  /\ device \in DeviceClasses
  /\ now = UNDEF

\* the two settings changed and the page loaded again, before the first
\* tick of the timer
NextBlur ==
  \/ InitBg
  \/ ChangeIntervalIn(ConfigIntervals, "interval")
  \/ ChangeBlur
  \/ ImageLoads(DarkOnly)
  \/ TransitionEnd(DarkOnly)
  \/ TransitionLost
  \/ SafetyNetTimer(DarkOnly)
  \/ Reload

SpecBlur == InitBlur /\ [][NextBlur]_vars

\* ------------------------------------------ settings changed during swaps
\* requests, load errors and changes of both settings, in any order
NextOwn ==
  \/ InitBg
  \/ Tick(DarkOnly, MaxOwnRequests)
  \/ Click(DarkOnly, MaxOwnRequests)
  \/ ChangeIntervalIn(IntervalOptions, "interval")
  \/ ChangeBlur
  \/ ImageLoads(DarkOnly)
  \/ ImageFailsBounded(MaxOwnErrors)
  \/ TransitionEnd(DarkOnly)
  \/ TransitionLost
  \/ SafetyNetTimer(DarkOnly)

SpecOwn == Init /\ [][NextOwn]_vars

\* ------------------------------------------ the rotation against the clock
\* a first visit at second 0
InitClock ==
  /\ InitCommon
  /\ analysis = NoAnalysis
  /\ providerIdx = 0
  /\ store = NoItem
  /\ blurStore = NoItem
  /\ device = [mobile |-> FALSE, tablet |-> FALSE]
  /\ now = 0

\* a second passes; a timer that is due fires before it does. A timer due
\* in the second that begins notes in swapsAtDue the swaps started so far
TimePasses ==
  /\ now < MaxTime
  /\ \A tm \in intervals : tm.due > now
  /\ now' = now + 1
  /\ intervals' =
       {[tm EXCEPT !.swapsAtDue = IF tm.due = now + 1 THEN nSwaps ELSE @] :
          tm \in intervals}
  /\ UNCHANGED <<mounted, bgPrimary, bgBuffer, fade, bgImage, transit,
                 listeners, timers, xf, switching, queued, preloaded,
                 providerIdx, bgTimer, store, blur, blurStore,
                 device, tone, theme, bodyTheme, loads, nSwaps, active,
                 fading, absorbed, reqs, nErrors, ev, analysis>>
  /\ UNCHANGED swVars

\* no manual request is made; images load or fail, and they, transitions
\* and the 700 ms timer take any time
NextClock ==
  \/ InitBg
  \/ TimePasses
  \/ Tick(DarkOnly, MaxClockRequests)
  \/ ChangeIntervalIn({0, 5}, "interval")
  \/ ImageLoads(DarkOnly)
  \/ ImageFailsBounded(MaxClockErrors)
  \/ TransitionEnd(DarkOnly)
  \/ TransitionLost
  \/ SafetyNetTimer(DarkOnly)

SpecClock == InitClock /\ [][NextClock]_vars

\* ------------------------------------------ analyzeTone called on its own
Black == <<0, 0, 0>>
Green == <<0, 255, 0>>
White == <<255, 255, 255>>

\* two more colours, each with the whole part of 100000 times its luminance
Tints ==
  << [px |-> <<128, 128, 128>>, lum |-> 21586],
     [px |-> <<17, 112, 216>>, lum |-> 16665] >>

\* the canvas of n pixels whose first g are green, the next w white, the
\* next k of the colour px and the rest black
Bitmap(n, g, w, k, px) ==
  [i \in 1..n |-> IF i <= g THEN Green
                  ELSE IF i <= g + w THEN White
                  ELSE IF i <= g + w + k THEN px ELSE Black]

\* analyzeTone on its own, on a desktop (the canvas is 32 x 32) or, in the
\* device-aware script, on a phone (16 x 16). The image has g green pixels
\* and k of a colour t of Tints; its white pixels are none, all the others,
\* or at most MaxOff from the least number with which the average luminance
\* (w + 0.7152 g + L k) / n is above 0.6. The engine is any: Math.pow
\* returns the double above the power for the channel values in up, a set
\* of channel values of the image, and the double below it for the others
InitAnalyze ==
  /\ InitCommon
  /\ blurStore = NoItem
  /\ device \in {[mobile |-> m, tablet |-> FALSE] : m \in BOOLEAN}
  /\ now = UNDEF
  /\ providerIdx = 0
  /\ store = NoItem
  /\ \E ok \in BOOLEAN, g \in {0, 125, 197}, k \in {0, 59, 164},
        t \in DOMAIN Tints :
       LET size == IF device.mobile THEN 16 ELSE 32
           n    == size * size
           rest == 60000 * n - 71520 * g - Tints[t].lum * k
           pass == IF rest < 0 THEN 0 ELSE rest \div 100000 + 1
       IN  \E w \in {0, n - g - k} \cup ((pass - MaxOff)..(pass + MaxOff)),
              up \in SUBSET {Tints[t].px[c] : c \in {j \in 1..3 : k > 0}} :
             /\ 0 <= w /\ g + w + k <= n
             /\ analysis = [size |-> size,
                            data |-> Bitmap(n, g, w, k, Tints[t].px),
                            readable |-> ok, up |-> up, out |-> <<>>]

\* analyzeTone(img) on the bitmap
CallAnalyzeTone ==
  /\ Len(analysis.out) < MaxAnalyses
  /\ analysis' = [analysis EXCEPT !.out = Append(@, AnalyzeToneOf(analysis))]
  /\ UNCHANGED <<mounted, bgPrimary, bgBuffer, fade, bgImage, transit,
                 listeners, timers, xf, switching, queued, preloaded,
                 providerIdx, bgTimer, intervals, store, blur, blurStore,
                 device, now, tone, theme, bodyTheme, loads, nSwaps, active,
                 fading, absorbed, reqs, nErrors, ev>>
  /\ UNCHANGED swVars

NextAnalyze == CallAnalyzeTone

SpecAnalyze == InitAnalyze /\ [][NextAnalyze]_vars

\* ------------------------------------------ resolver called on its own
InitResolver ==
  /\ InitCommon
  /\ InitDesktop
  /\ analysis = NoAnalysis
  /\ providerIdx \in 0..(ProviderCount - 1)
  /\ store = NoItem

\* loadNextWithRetry(k)
CallLoadNextWithRetry ==
  /\ BagCardinality(loads) < MaxCalls
  /\ \E k \in {UNDEF} \cup (0..MaxTriesArg) :
        Commit(LoadNextWithRetry(State, "caller", BagCardinality(loads) + 1,
                                 k), "step")

NextResolver ==
  \/ CallLoadNextWithRetry
  \/ ImageLoads(DarkOnly)
  \/ ImageFails

SpecResolver == InitResolver /\ [][NextResolver]_vars

\* every image a call waits for eventually reports load or error
LiveResolverSpec ==
  /\ InitResolver /\ [][NextResolver]_vars
  /\ WF_vars(ImageLoads(DarkOnly) \/ ImageFails)

\* ------------------------------------------ the cursor of the providers
\* the script has just been loaded: let providerIdx = 0
InitCursor ==
  /\ InitCommon
  /\ InitDesktop
  /\ analysis = NoAnalysis
  /\ providerIdx = 0
  /\ store = NoItem

\* nextUrl() called on its own; the call is kept with the URL it returned
CallNextUrl ==
  /\ BagCardinality(loads) < MaxCursorCalls
  /\ LET nu == NextUrl(State)
         co == [owner |-> "caller", n |-> BagCardinality(loads) + 1,
                maxTries |-> UNDEF, tries |-> 0, status |-> "returned",
                url |-> nu.url, log |-> <<nu.url>>, fails |-> 0,
                res |-> nu.url]
     IN  Commit([nu.s EXCEPT !.loads = @ (+) SetToBag({co})], "step")

\* nextUrl() called on its own and by loadNextWithRetry, in any order
NextCursor ==
  \/ CallNextUrl
  \/ CallLoadNextWithRetry
  \/ ImageLoads(DarkOnly)
  \/ ImageFails

SpecCursor == InitCursor /\ [][NextCursor]_vars

\* --------------------------------------------------- the second script
\* The second script (the sequential fade) declares bgPrimary and bgBuffer
\* null, and calls neither ensureBgBuffers nor nextUrl, which it does not
\* define: its two calls of ensureBgBuffers are commented out.
ThemeOptions == {"auto", "light", "dark"}

\* setTheme(t)
SetTheme(s, t) == [s EXCEPT !.bodyTheme = t, !.theme = t]

\* applyTone(tone) of the second script: the class of the root element,
\* and the item 'dove-theme'; initBg declares an applyTone of its own with
\* the same body
ApplyTone2(s, t) == [s EXCEPT !.tone = t, !.theme = t]

\* loadNextWithRetry(maxTries) of the second script up to its first await:
\* nextUrl() throws a ReferenceError in every pass of the loop, the catch of
\* the loop swallows it, and the loop runs its budget down without a request;
\* the call then awaits the fallback image
LoadNextWithRetry2(s, owner, n, maxTries) ==
  LET co == [owner |-> owner, n |-> n, maxTries |-> maxTries,
             tries |-> 0 - 1, status |-> "fallback", url |-> FALLBACK_BG,
             log |-> Hist(owner, <<>>, FALLBACK_BG), fails |-> 0,
             res |-> NoUrl]
  IN  [s EXCEPT !.loads = @ (+) SetToBag({co})]

\* startProactivePreload() of the second script
StartProactivePreload2(s) ==
  IF s.preloaded # NoRes THEN s
  ELSE LoadNextWithRetry2([s EXCEPT !.loads = BagOfAll(Superseded, @)],
                          "preload", 0, UNDEF)

\* crossfadeTo(img, url) of the second script, on behalf of swap k, up to
\* its requestAnimationFrame: the closure waits for the frame. The guard
\* returns in every run (SeqNothingPending), so the frame callback, its
\* timers and onTransitionEnd have no step in this model
CrossfadeTo2(s, res, k) ==
  IF s.bgPrimary = NULL \/ s.bgBuffer = NULL THEN s
  ELSE
    LET s1 == [s EXCEPT !.bgImage[s.bgBuffer] = res.url]
        t  == AnalyzeTone(s1, res)
        s2 == ApplyTone2(s1, IF t = NULL THEN "dark" ELSE t)
        s3 == RemoveFade(s2, s.bgBuffer)
    IN  [s3 EXCEPT !.xf = (k :> [old |-> s.bgPrimary, new |-> s.bgBuffer,
                                 stage |-> "frame"]) @@ @,
                   !.fading = @ \cup {k}]

\* updateBg() of the second script
UpdateBg2(s) ==
  IF s.switching
  THEN [s EXCEPT !.queued = TRUE, !.absorbed = @ + 1]
  ELSE
    LET k  == s.nSwaps + 1
        s1 == [s EXCEPT !.switching = TRUE, !.nSwaps = k,
                        !.active = @ \cup {k}, !.absorbed = 0]
    IN  IF s1.preloaded # NoRes
        THEN CrossfadeTo2([s1 EXCEPT !.preloaded = NoRes,
                                     !.mark = "consumed"],
                          s1.preloaded, k)
        ELSE LoadNextWithRetry2(s1, "swap", k, UNDEF)

\* the catch branch of updateBg() of the second script, swap k
UpdateBgCatch2(s, k) ==
  LET s1 == [s EXCEPT !.switching = FALSE, !.active = @ \ {k},
                      !.fading = @ \ {k}]
      s2 == IF s1.bgPrimary = NULL THEN s1
            ELSE RemoveFade([s1 EXCEPT !.bgImage[s1.bgPrimary] = FALLBACK_BG],
                            s1.bgPrimary)
  IN  StartProactivePreload2(s2)

\* the continuations of a call of loadNextWithRetry that settles
Resolved2(s, co) ==
  LET res == [url |-> co.url]
      s1  == [s EXCEPT !.loads = Settle(@, co, "resolved", res.url)]
  IN  CASE co.owner = "swap" ->
             CrossfadeTo2([s1 EXCEPT !.preloaded = NoRes, !.mark = "resumed"],
                          res, co.n)
        [] co.owner = "preload" -> [s1 EXCEPT !.preloaded = res]
        [] OTHER -> s1

Rejected2(s, co) ==
  LET s1 == [s EXCEPT !.loads = Settle(@, co, "rejected", NoUrl)]
  IN  CASE co.owner = "swap" -> UpdateBgCatch2(s1, co.n)
        [] OTHER -> s1

\* the page before the second script runs: the stores are what an earlier
\* session left
InitSeq ==
  /\ InitPage
  /\ InitDesktop
  /\ analysis = NoAnalysis
  /\ providerIdx = 0
  /\ store \in StoredIntervals
  /\ theme \in {NULL} \cup ThemeOptions
  /\ InitNoWorker

\* the second script runs: the stored theme is restored
\* (if(saved){ setTheme(saved); }), then initBg
RunScript2 ==
  /\ ~mounted
  /\ LET s0 == IF theme # NULL THEN SetTheme(State, theme) ELSE State
         s1 == ApplyTone2(s0, "dark")
         s2 == UpdateBg2(s1)
         saved == ParseInt(OrDefault(s2.store, <<"0">>))
         s3 == IF saved.nan THEN s2 ELSE ApplyBgInterval(s2, saved.val)
         savedBlur == ParseInt(OrDefault(s3.blurStore, <<"1", "2">>))
         s4 == ApplyBgBlur(s3, IF savedBlur.nan THEN 12 ELSE savedBlur.val)
         s5 == StartProactivePreload2(s4)
     IN  Commit([s5 EXCEPT !.mounted = TRUE], "mounted")

\* click on #toggleTheme
ToggleTheme ==
  /\ mounted
  /\ LET cur == IF theme = NULL THEN "auto" ELSE theme
         nxt == IF cur = "auto" THEN "light"
                ELSE IF cur = "light" THEN "dark" ELSE "auto"
     IN  Commit(SetTheme(State, nxt), "theme")

\* the interval timer fires: its callback is updateBg
Tick2(T, m) ==
  /\ mounted /\ reqs < m
  /\ \E tm \in intervals, t \in T :
        Commit(UpdateBg2([With(t) EXCEPT !.reqs = @ + 1]), "step")

\* click on #bgNext
Click2(T, m) ==
  /\ mounted /\ reqs < m
  /\ \E t \in T : Commit(UpdateBg2([With(t) EXCEPT !.reqs = @ + 1]), "step")

\* img.onload of the image a load is waiting for
ImageLoads2(T) ==
  \E co \in Pending(State), t \in T :
    Commit(Resolved2(With(t), co), "step")

\* img.onerror of the image a load is waiting for, which is the fallback
ImageFails2(m) ==
  /\ nErrors < m
  /\ \E co \in Pending(State) :
        Commit(Rejected2([State EXCEPT !.nErrors = @ + 1], co),
               IF co.owner = "swap" THEN "swapFailed" ELSE "step")

NextSeq ==
  \/ RunScript2
  \/ ToggleTheme
  \/ Tick2(DarkOnly, MaxSeqRequests)
  \/ Click2(DarkOnly, MaxSeqRequests)
  \/ ChangeIntervalIn(IntervalOptions, "interval")
  \/ ImageLoads2(DarkOnly)
  \/ ImageFails2(MaxSeqErrors)
  \/ Reload

\* the second script, where every image that is awaited loads or fails and
\* an armed interval timer fires
SpecSeq ==
  /\ InitSeq /\ [][NextSeq]_vars
  /\ WF_vars(ImageLoads2(DarkOnly) \/ ImageFails2(MaxSeqErrors))
  /\ WF_vars(Tick2(DarkOnly, MaxSeqRequests))

\* --------------------------------------------------- the service worker
CACHE_NAME == "dove-site-v2"

\* a path or URL is the sequence of its pieces: every "/" is a piece, and so
\* is every run of other characters between two of them

\* the site root the worker derives from its own location
ROOT == <<"/">>

\* p(rel) = ROOT + String(rel).replace(/^\/+/, ''): the leading slashes of
\* rel are dropped and the rest is appended to the root; rel is a string in
\* every call, so String(rel) is rel
P(rel) ==
  LET RECURSIVE Strip(_)
      Strip(r) == IF r # <<>> /\ Head(r) = "/" THEN Strip(Tail(r)) ELSE r
  IN  ROOT \o Strip(rel)

OFFLINE_URL == P(<<"assets", "/", "offline.html">>)

UrlsToCache ==
  {P(<<>>),
   P(<<"intranet", "/">>),
   P(<<"assets", "/", "styles.css">>),
   P(<<"assets", "/", "app.js">>),
   P(<<"assets", "/", "qrcode.min.js">>),
   P(<<"assets", "/", "offline.html">>),
   P(<<"assets", "/", "favicon.svg">>),
   P(<<"assets", "/", "favicon.png">>),
   P(<<"assets", "/", "favicon-f.svg">>)}

\* the URLs of the requests: those of urlsToCache, and two the install
\* does not cache, a page of the site and an image of another origin
RequestUrls ==
  UrlsToCache \cup
    {P(<<"go", "/", "1", "/">>),
     <<"https:", "/", "/", "picsum.photos", "/", "1280", "/", "720">>}

\* a response: gen 0 was fetched by the install, gen 1 later, gen -1 by an
\* earlier worker
Response(u, status, type, gen) ==
  [url |-> u, status |-> status, type |-> type, gen |-> gen]

\* undefined, where a response is expected
NoResponse ==
  [url |-> <<>>, status |-> UNDEF, type |-> NULL, gen |-> UNDEF]

\* what fetch(request) can resolve with: a response of the site itself (the
\* URL is a path of the worker's origin) has type 'basic', one of another
\* origin 'cors' or 'opaque'
NetworkResponses(u) ==
  IF Head(u) = "/"
  THEN {Response(u, 200, "basic", 1), Response(u, 404, "basic", 1)}
  ELSE {Response(u, 200, "cors", 1), Response(u, 0, "opaque", 1)}

\* a cache without entries
EmptyCache == [u \in RequestUrls |-> NoResponse]

\* the service worker and the cache storage as one value
Worker ==
  [phase |-> swPhase, names |-> cacheNames, store |-> cacheStore,
   online |-> online, fetches |-> fetches, puts |-> pendingPuts,
   deletes |-> deletes]

CommitWorker(w) ==
  /\ swPhase' = w.phase
  /\ cacheNames' = w.names
  /\ cacheStore' = w.store
  /\ online' = w.online
  /\ fetches' = w.fetches
  /\ pendingPuts' = w.puts
  /\ deletes' = w.deletes
  /\ UNCHANGED <<mounted, bgPrimary, bgBuffer, fade, bgImage, transit, listeners,
                 timers, xf, switching, queued, preloaded, providerIdx, bgTimer,
                 intervals, store, blur, blurStore, device, now, tone, theme,
                 bodyTheme, loads, nSwaps, active, fading, absorbed, reqs,
                 nErrors, ev, analysis>>

\* caches.open(name): the cache is created if the storage has none
CachesOpen(w, name) ==
  IF \E i \in DOMAIN w.names : w.names[i] = name THEN w
  ELSE [w EXCEPT !.names = Append(@, name),
                 !.store = (name :> EmptyCache) @@ @]

\* caches.match(request): the entry of the first cache, in the order of
\* creation, that holds one for the URL; undefined if none does
CachesMatch(w, u) ==
  LET hits == {i \in DOMAIN w.names : w.store[w.names[i]][u] # NoResponse}
  IN  IF hits = {} THEN NoResponse ELSE w.store[w.names[MinOf(hits)]][u]

\* variant: the current cache is not on the whitelist
CacheWhitelist_Empty == {}

\* const cacheWhitelist = [CACHE_NAME]
CacheWhitelist == {CACHE_NAME}

\* variant: the network is asked whatever the caches hold
OnMatched_NetworkFirst(w, i) ==
  [w EXCEPT !.fetches[i].hit = CachesMatch(w, w.fetches[i].url),
            !.fetches[i].stage = "net", !.fetches[i].net = TRUE]

\* caches.match of fetch event i resolved: the cached response answers the
\* event, else the request goes to the network
OnMatched(w, i) ==
  LET response == CachesMatch(w, w.fetches[i].url)
  IN  IF response # NoResponse
      THEN [w EXCEPT !.fetches[i].hit = response,
                     !.fetches[i].stage = "done",
                     !.fetches[i].out = response]
      ELSE [w EXCEPT !.fetches[i].stage = "net", !.fetches[i].net = TRUE]

\* variant: every network response is stored
OnNetworkResponse_StoresAll(w, i, response) ==
  [w EXCEPT !.fetches[i].stage = "done", !.fetches[i].out = response,
            !.puts = @ \cup {[event |-> i, url |-> w.fetches[i].url,
                               response |-> response]}]

\* fetch(fetchRequest) of event i resolved with response: it answers the
\* event, and a copy is handed to caches.open(CACHE_NAME) to be stored if
\* it has status 200 and type 'basic'; each event makes a call of its own,
\* also when another event has handed over a response for the same URL
OnNetworkResponse(w, i, response) ==
  IF response = NoResponse \/ response.status # 200 \/ response.type # "basic"
  THEN [w EXCEPT !.fetches[i].stage = "done", !.fetches[i].out = response]
  ELSE [w EXCEPT !.fetches[i].stage = "done", !.fetches[i].out = response,
                 !.puts = @ \cup {[event |-> i, url |-> w.fetches[i].url,
                                   response |-> response]}]

\* the browser has fetched the worker script; the cache storage of the
\* origin is empty or holds what an earlier worker left, a stale copy of
\* the start page being in each of its caches
InitWorker ==
  /\ InitPage /\ theme = NULL
  /\ InitDesktop
  /\ analysis = NoAnalysis
  /\ providerIdx = 0
  /\ store = NoItem
  /\ swPhase = "parsed"
  /\ \E S \in SUBSET {"dove-site-v1", CACHE_NAME} :
        /\ cacheNames \in {q \in [1..Cardinality(S) -> S] :
                             \A i, j \in DOMAIN q : i # j => q[i] # q[j]}
        /\ cacheStore = [n \in S |->
             [EmptyCache EXCEPT ![P(<<>>)] = Response(P(<<>>), 200, "basic", 0 - 1)]]
  /\ online \in BOOLEAN
  /\ fetches = <<>>
  /\ pendingPuts = {}
  /\ deletes = <<>>

\* the install event: the listener opens the cache and calls cache.addAll
Install ==
  /\ swPhase = "parsed"
  /\ CommitWorker([CachesOpen(Worker, CACHE_NAME) EXCEPT
                     !.phase = "installing"])

\* cache.addAll settles. It succeeds only with the network up: every URL
\* was fetched with an ok response and all are stored, then skipWaiting().
\* If it fails nothing is stored, the promise given to waitUntil rejects
\* and the browser discards the worker
AddAllSettles ==
  /\ swPhase = "installing"
  /\ \E ok \in BOOLEAN :
        /\ ok => online
        /\ CommitWorker(
             IF ok
             THEN [Worker EXCEPT
                     !.phase = "installed",
                     !.store[CACHE_NAME] =
                        [u \in RequestUrls |->
                           IF u \in UrlsToCache
                           THEN Response(u, 200, "basic", 0) ELSE @[u]]]
             ELSE [Worker EXCEPT !.phase = "redundant"])

\* the activate event, which follows the install at once (skipWaiting):
\* caches.keys() answers, and a caches.delete is under way for every name
\* that is not on the whitelist
Activate ==
  /\ swPhase = "installed"
  /\ CommitWorker([Worker EXCEPT
        !.phase = "activating",
        !.deletes = [n \in {cacheNames[i] : i \in DOMAIN cacheNames}
                             \ CacheWhitelist |-> FALSE]])

\* one caches.delete of the activate listener settles
DeleteSettles ==
  /\ swPhase = "activating"
  /\ \E name \in DOMAIN deletes :
        /\ ~deletes[name]
        /\ CommitWorker([Worker EXCEPT
              !.names = SelectSeq(@, LAMBDA n : n # name),
              !.store = [n \in (DOMAIN @) \ {name} |-> @[n]],
              !.deletes[name] = TRUE])

\* Promise.all resolved: self.clients.claim(), the worker is activated
ActivateDone ==
  /\ swPhase = "activating" /\ \A name \in DOMAIN deletes : deletes[name]
  /\ CommitWorker([Worker EXCEPT !.phase = "activated"])

\* a page the worker controls requests u: the listener calls
\* caches.match(event.request)
FetchEvent ==
  /\ swPhase = "activated" /\ Len(fetches) < MaxFetches
  /\ \E u \in RequestUrls :
        CommitWorker([Worker EXCEPT !.fetches = Append(@,
           [url |-> u, stage |-> "match", hit |-> NoResponse, net |-> FALSE,
            failed |-> FALSE, down |-> ~online, out |-> NoResponse])])

MatchSettles ==
  \E i \in DOMAIN fetches :
    /\ fetches[i].stage = "match"
    /\ CommitWorker(OnMatched(Worker, i))

\* the network answers a request; it does so only while it is up
NetworkResponds ==
  \E i \in DOMAIN fetches :
    /\ fetches[i].stage = "net" /\ online
    /\ \E r \in NetworkResponses(fetches[i].url) :
          CommitWorker(OnNetworkResponse(Worker, i, r))

\* a request to the network fails: the catch calls
\* caches.match(OFFLINE_URL)
NetworkFails ==
  \E i \in DOMAIN fetches :
    /\ fetches[i].stage = "net"
    /\ CommitWorker([Worker EXCEPT !.fetches[i].stage = "offline",
                                   !.fetches[i].failed = TRUE])

\* caches.match(OFFLINE_URL) resolves: its result answers the event
OfflineMatchSettles ==
  \E i \in DOMAIN fetches :
    /\ fetches[i].stage = "offline"
    /\ CommitWorker([Worker EXCEPT
          !.fetches[i].stage = "done",
          !.fetches[i].out = CachesMatch(Worker, OFFLINE_URL)])

\* caches.open(CACHE_NAME).then(cache => { cache.put(...) }) of one fetch
\* event whose response was handed over earlier
PutSettles ==
  \E pp \in pendingPuts :
    CommitWorker([CachesOpen(Worker, CACHE_NAME) EXCEPT
                    !.store[CACHE_NAME][pp.url] = pp.response,
                    !.puts = @ \ {pp}])

\* the network goes down or comes back
NetworkChanges == CommitWorker([Worker EXCEPT !.online = ~@])

NextWorker ==
  \/ Install
  \/ AddAllSettles
  \/ Activate
  \/ DeleteSettles
  \/ ActivateDone
  \/ FetchEvent
  \/ MatchSettles
  \/ NetworkResponds
  \/ NetworkFails
  \/ OfflineMatchSettles
  \/ PutSettles
  \/ NetworkChanges

SpecWorker == InitWorker /\ [][NextWorker]_vars

\* ---------------------------------------------------------------- claims
Calls == {co \in BagToSet(loads) : co.owner = "caller"}
\* the swap that holds the switching flag, 0 when the coordinator is idle
Holder == IF switching THEN nSwaps ELSE 0

\* C1: at most one swap is in flight: from the step in which a swap sets
\* switching until that swap's own completion no other swap starts
C1_SingleFlight == Cardinality(active) <= 1

\* C2: when a swap completes, exactly one further swap starts in that step
\* if one or more requests arrived while it was in flight, and none starts
\* if no request arrived
C2_Coalesce ==
  [][(active \ active' # {}) =>
       (nSwaps' - nSwaps = IF absorbed >= 1 THEN 1 ELSE 0)]_vars

\* C3: switching = false implies queued = false
C3_QueuedOnlyWhileSwitching == ~switching => ~queued

\* C4: a swap that holds the switching flag and has begun its crossfade
\* eventually gives the flag up, whether or not transitionend arrives
C4_Progress ==
  \A k \in 1..(MaxRequests + 1) : (Holder = k /\ k \in fading) ~> (Holder # k)

\* the safety-net timer has just completed a crossfade whose transitionend
\* listener was still waiting
C4_Witness == ev = "safetyNet" /\ ~switching /\ nSwaps >= 1

\* C5 as stated: loadNextWithRetry(k), k >= 0, makes at most k+1 attempts
C5_Original ==
  \A co \in Calls : co.maxTries >= 0 => Len(co.log) <= co.maxTries + 1

\* C5 amended: loadNextWithRetry(k) makes at most k+1 attempts for k >= 1,
\* and at most ProviderCount+1 attempts for k = 0, which selects the default
C5_AtMostBudgetPlusOne ==
  \A co \in Calls :
    co.maxTries >= 0 =>
      Len(co.log) <= (IF co.maxTries = 0 THEN ProviderCount ELSE co.maxTries) + 1

\* a call with an explicit budget k >= 1 has used all k+1 attempts and failed
C5_Witness ==
  \E co \in Calls :
    co.maxTries >= 1 /\ co.status = "rejected" /\ Len(co.log) = co.maxTries + 1

\* C6: a call whose first j-1 attempts failed and whose j-th succeeded, j
\* within the try budget, made exactly j attempts, returns the image of the
\* j-th attempt and never requested the fallback asset
C6_ShortCircuit ==
  \A co \in Calls :
    (co.status = "resolved" /\ co.fails < TriesBudget(co.maxTries)) =>
      /\ Len(co.log) = co.fails + 1
      /\ co.res = co.log[co.fails + 1]
      /\ co.res.kind = "provider"
      /\ \A i \in DOMAIN co.log : co.log[i] # FALLBACK_BG

\* two attempts failed and the third, of a provider, succeeded
C6_Witness ==
  \E co \in Calls :
    /\ co.status = "resolved" /\ co.fails = 2 /\ Len(co.log) = 3
    /\ co.res.kind = "provider"

\* C7: the fallback asset is requested at most once, as the attempt after
\* the whole try budget has failed; the call fails exactly when that
\* attempt fails, and the failure of a provider does not end the call
C7_FallbackLast ==
  \A co \in Calls :
    LET budget == TriesBudget(co.maxTries)
        fb == {i \in DOMAIN co.log : co.log[i] = FALLBACK_BG}
    IN  /\ fb \subseteq {budget + 1}
        /\ Len(co.log) <= budget + 1
        /\ (fb # {}) = (co.fails >= budget)
        /\ (co.status = "rejected") = (co.fails = budget + 1)
        /\ co.status = "fallback" => fb = {Len(co.log)}

\* the whole budget and the fallback attempt have failed
C7_Witness ==
  \E co \in Calls :
    co.status = "rejected" /\ co.log[Len(co.log)] = FALLBACK_BG

\* C8: the step in which a swap fails with every provider and the fallback
\* exhausted starts no crossfade, leaves the roles of the surfaces as they
\* are, puts the fallback image on the primary surface, shows that surface
\* and leaves the coordinator idle
C8_FailureShowsFallback ==
  [][ev' = "swapFailed" =>
       /\ timers' = timers /\ listeners' = listeners /\ fading' = fading
       /\ bgPrimary' = bgPrimary /\ bgBuffer' = bgBuffer
       /\ bgImage'[bgPrimary] = FALLBACK_BG
       /\ bgImage'[bgBuffer] = bgImage[bgBuffer]
       /\ ~fade'[bgPrimary]
       /\ ~switching']_vars

\* a swap has just failed
C8_Witness == ev = "swapFailed" /\ bgImage[bgPrimary] = FALLBACK_BG

\* C9: a scheduler tick that follows the failure of a swap finds the
\* coordinator idle and starts a swap; it is not turned into a queued request
C9_TickAfterFailureSwaps ==
  [][ev' = "tickAfterFail" =>
       /\ ~switching /\ switching'
       /\ nSwaps' = nSwaps + 1
       /\ nSwaps' \in active'
       /\ queued' = queued]_vars

\* the tick after a failed swap during which a request had arrived
C9_Witness == ev = "tickAfterFail" /\ queued /\ switching

\* C10: once the surfaces exist the two roles are held by two different
\* surfaces, and every completed transition exchanges the roles
C10_RolesExchange ==
  /\ [](mounted => (bgPrimary \in Surfaces /\ bgBuffer \in Surfaces
                    /\ bgPrimary # bgBuffer))
  /\ [][(fading \ fading' # {}) =>
          (bgPrimary' = bgBuffer /\ bgBuffer' = bgPrimary)]_vars

\* C11: a step in which a swap takes its image from the cache (the swap
\* starts and begins its crossfade in the same step) leaves the cache empty,
\* and a step that starts a preload load leaves the cache empty: the load was
\* started with nothing cached
C11_ConsumeClearsRefillOnEmpty ==
  [][/\ (nSwaps' > nSwaps /\ nSwaps' \in fading') => preloaded' = NoRes
     /\ NPreloads(loads') > NPreloads(loads) => preloaded' = NoRes]_vars

\* a swap has just consumed the preloaded image
C11_Witness == ev = "consumed" /\ preloaded = NoRes /\ nSwaps \in fading

\* C12: the step that completes a swap leaves the cache empty with a refill
\* load in flight, and an empty cache with a refill in flight is eventually
\* populated, whether or not a further request is made
C12_RefillAfterSwap ==
  /\ [][(fading \ fading' # {}) =>
          (preloaded' = NoRes /\ NPreloads(loads') >= 1)]_vars
  /\ ((preloaded = NoRes /\ NPreloads(loads) >= 1) ~> (preloaded # NoRes))

\* the first swap has completed, no request was made since the page was
\* mounted, and the cache is populated again
C12_Witness ==
  /\ reqs = 0 /\ nSwaps = 1 /\ active = {} /\ bgPrimary = "bgLayer2"
  /\ preloaded # NoRes

\* the preload loads in flight of the given age (0 = the newest)
NPreloadsAged(b, age) ==
  LET S == {co \in BagToSet(b) : co.owner = "preload" /\ co.n = age}
  IN  BagCardinality([co \in S |-> b[co]])

\* C13: in a run without load errors, when the newest preload is no longer
\* in flight (it has stored its result) and a superseded preload delivers
\* its image, the cache is left as it was
C13_StaleNotAdopted ==
  [][(/\ nErrors' = 0
      /\ NPreloadsAged(loads, 0) = 0
      /\ NPreloadsAged(loads', 1) < NPreloadsAged(loads, 1)) =>
        preloaded' = preloaded]_vars

\* C14: a step in which a crossfade starts and the analysis of its image
\* fails leaves the tone of the page as it was
C14_ToneRetainedOnFailure == [][ev' = "toneFailed" => tone' = tone]_vars

\* the pixels of the bitmap that are equal to px
CountOf(data, px) == Cardinality({i \in DOMAIN data : data[i] = px})

C16_OneTimer ==
  /\ [](mounted =>
          /\ Cardinality(intervals) <= 1
          /\ (intervals # {}) <=> (ParseInt(store).val > 0)
          /\ \A tm \in intervals :
                tm.id = bgTimer /\ tm.period = ParseInt(store).val)
  /\ [][reqs' > reqs =>
          \E tm \in intervals :
             tm.id = bgTimer /\ tm.period = ParseInt(store).val]_vars

C16_Witness ==
  /\ ev = "interval" /\ reqs > 0
  /\ store = StringOf(10)
  /\ \E tm \in intervals : tm.period = 10

\* C17: while the interval is 0 (the interval in force is what the store
\* holds, 0 when it holds nothing) no swap starts on a mounted page to which
\* no manual request is made
C17_NoSwapAtZero ==
  [][(mounted /\ mounted' /\ ParseInt(OrDefault(store, <<"0">>)).val = 0)
       => nSwaps' = nSwaps]_vars

\* C19: once the blur is set, the value of --bg-blur and the value persisted
\* are at most 6 on a mobile device, at most 10 on a tablet, and never
\* below 0
C19_BlurClamped ==
  blur # UNDEF =>
    /\ blur >= 0 /\ ParseInt(blurStore).val >= 0
    /\ device.mobile => (blur <= 6 /\ ParseInt(blurStore).val <= 6)
    /\ device.tablet => (blur <= 10 /\ ParseInt(blurStore).val <= 10)

\* the periods of the timers armed when the interval is v
TimerPeriods(v) == IF v > 0 THEN {v} ELSE {}

\* C20: the interval and the blur in force on a mounted page are what the
\* store reads back as; loading the page again leaves the store alone; and
\* mounting restores from the store the interval (a timer of that period,
\* none for 0) and the blur, taking 0 and 12 where nothing is stored
C20_RoundTrip ==
  /\ [](mounted =>
          /\ {tm.period : tm \in intervals} = TimerPeriods(ParseInt(store).val)
          /\ blur = ParseInt(blurStore).val)
  /\ [][(mounted /\ ~mounted') =>
          (store' = store /\ blurStore' = blurStore)]_vars
  /\ [][(~mounted /\ mounted') =>
          /\ {tm.period : tm \in intervals'} =
                TimerPeriods(IF store = NoItem THEN 0 ELSE ParseInt(store).val)
          /\ blur' = IF blurStore = NoItem THEN 12
                     ELSE ParseInt(blurStore).val]_vars

C20_Witness ==
  /\ ev = "mounted"
  /\ store = StringOf(10) /\ {tm.period : tm \in intervals} = {10}
  /\ blurStore = StringOf(20) /\ blur = 20

\* C18 as stated: the timer set to s seconds ticks a whole number of
\* periods after the call, and a swap starts while the clock reads s to s+1
\* seconds after the call: when the second s+1 after the call is over, more
\* swaps have started than when the second s after the call began
C18_SwapWithinWindow ==
  /\ [][reqs' > reqs =>
          \E tm \in intervals :
             /\ tm.id = bgTimer
             /\ now >= tm.armedAt + tm.period
             /\ (now - tm.armedAt) % tm.period = 0]_vars
  /\ [][now' = now + 1 =>
          \A tm \in intervals :
             (tm.id = bgTimer /\ now = tm.armedAt + tm.period + 1) =>
                nSwaps > tm.swapsAtDue]_vars

\* C18: the call that sets the interval to s > 0 is the moment the timer in
\* use counts from; every tick is a tick of that timer, a whole number of
\* periods (one at least) after the call; the tick starts a swap when none
\* is in flight, and with one in flight it starts none and sets queued; and
\* when a second that is a whole number of periods after the call is over,
\* the timer has ticked in it and a swap has started in it or the request
\* is still queued
C18_TickOnSchedule ==
  /\ [][store' # store =>
          \A tm \in intervals' :
             tm.id = bgTimer' /\ tm.armedAt = now
             /\ tm.period = ParseInt(store').val]_vars
  /\ [][reqs' > reqs =>
          /\ \E tm \in intervals :
                /\ tm.id = bgTimer
                /\ now >= tm.armedAt + tm.period
                /\ (now - tm.armedAt) % tm.period = 0
          /\ IF switching
             THEN nSwaps' = nSwaps /\ queued'
             ELSE nSwaps' = nSwaps + 1 /\ switching']_vars
  /\ [][now' = now + 1 =>
          \A tm \in intervals :
             (tm.id = bgTimer /\ now > tm.armedAt
                /\ (now - tm.armedAt) % tm.period = 0) =>
                /\ tm.due = now + tm.period
                /\ nSwaps > tm.swapsAtDue \/ queued]_vars

\* the timer set to 5 seconds has ticked 5 seconds after the call and the
\* tick has started a swap
C18_Witness ==
  \E tm \in intervals :
     /\ tm.period = 5 /\ store = StringOf(5)
     /\ now = tm.armedAt + 5 /\ tm.due = now + 5
     /\ reqs = 1 /\ absorbed = 0 /\ nSwaps = tm.swapsAtArm + 1
     /\ nSwaps = tm.swapsAtDue + 1

\* C21: a result held in the cache leaves the cache only by being displayed:
\* a step that takes it out of the cache, or replaces it, begins a crossfade
\* that puts this image on its incoming surface
C21_ConsumedOnce ==
  [][(preloaded # NoRes /\ preloaded' # preloaded) =>
       \E k \in fading' \ fading :
          bgImage'[xf'[k].new] = preloaded.url]_vars

\* C22: in every state of the mounted page with its timer armed, the tick
\* of the timer and the click on the button lead to the same state: both
\* start a swap when none is in flight, both only set queued otherwise
C22_TickEqualsClick ==
  mounted =>
    \A tm \in intervals, t \in DarkOnly :
       /\ TickStep(With(t), tm) = ClickStep(With(t))
       /\ switching =>
             ClickStep(With(t)) =
               [With(t) EXCEPT !.queued = TRUE, !.reqs = @ + 1,
                               !.absorbed = @ + 1]

\* a swap started by a request is in its crossfade with the timer armed: a
\* click now, like a tick now, is queued
C22_Witness ==
  /\ mounted /\ intervals # {}
  /\ switching /\ ~queued /\ reqs = 1 /\ nSwaps = 2 /\ nSwaps \in fading
  /\ ClickStep(State).queued /\ ClickStep(State).nSwaps = nSwaps

\* the direct call number n is waiting for an image
InFlight(n) ==
  \E co \in Calls : co.n = n /\ co.status \notin {"resolved", "rejected"}

\* the direct call number n has returned a result or thrown
Settled(n) ==
  \E co \in Calls : co.n = n /\ co.status \in {"resolved", "rejected"}

\* C23: when every image load eventually reports load or error, every call
\* of loadNextWithRetry resolves or rejects, and it never makes more
\* attempts than its budget and one for the fallback
C23_Terminates ==
  /\ \A n \in 1..MaxCalls : InFlight(n) ~> Settled(n)
  /\ [](\A co \in Calls : Len(co.log) <= TriesBudget(co.maxTries) + 1)

\* two calls have ended, one with an image after an error, one with the
\* failure of every provider and of the fallback
C23_Witness ==
  /\ \A n \in 1..MaxCalls : Settled(n)
  /\ \E co \in Calls : co.status = "resolved" /\ co.fails >= 1
  /\ \E co \in Calls : co.status = "rejected"

\* the step is the firing of the oldest safety-net timer: no other step
\* takes a timer out of the queue
SafetyNetFires ==
  timers # <<>> /\ timers' # timers /\ Len(timers') <= Len(timers)

\* C24: the safety-net timer of a crossfade that has been completed already
\* changes nothing when it fires: not switching, queued, the roles, the
\* visibility of a surface, the cache, nor the number of swaps started
C24_CompletionOnce ==
  [][(SafetyNetFires /\ Head(timers) \notin fading) =>
       /\ switching' = switching /\ queued' = queued
       /\ bgPrimary' = bgPrimary /\ bgBuffer' = bgBuffer
       /\ fade' = fade /\ preloaded' = preloaded
       /\ nSwaps' = nSwaps /\ active' = active]_vars

\* C25: a request (tick or click) made while switching is set leaves queued
\* set and changes nothing else of the page: no load starts, no surface, no
\* role, neither the cache, the flag switching nor the provider cursor
\* changes; made while queued is set already, it changes nothing at all
C25_RequestWhileSwitching ==
  [][(reqs' > reqs /\ switching) =>
       /\ queued'
       /\ UNCHANGED <<switching, preloaded, providerIdx, bgPrimary, bgBuffer,
                      fade, bgImage, transit, loads, listeners, timers, xf,
                      tone, bgTimer, store, nSwaps, active, fading>>]_vars

\* two requests were made during one swap; the second found queued set
C25_Witness ==
  switching /\ queued /\ absorbed = 2 /\ reqs = 2 /\ nSwaps = 1

\* C26: a request made while no swap is in flight and the cache is
\* populated starts a swap whose crossfade begins in the same step with the
\* cached image on the hidden surface, starts no load, does not move the
\* provider cursor, and leaves the cache empty
C26_PreloadedUsedAtOnce ==
  [][(reqs' > reqs /\ ~switching /\ preloaded # NoRes) =>
       /\ nSwaps' = nSwaps + 1 /\ switching'
       /\ nSwaps' \in fading'
       /\ bgImage'[bgBuffer] = preloaded.url
       /\ loads' = loads /\ providerIdx' = providerIdx
       /\ preloaded' = NoRes]_vars

\* a request has just taken the cached image while no load was in flight
C26_Witness ==
  /\ ev = "consumed" /\ reqs >= 1 /\ loads = EmptyBag
  /\ switching /\ nSwaps \in fading /\ preloaded = NoRes

\* the loads in flight that swap k awaits
SwapLoads(b, k) ==
  {co \in BagToSet(b) : co.owner = "swap" /\ co.n = k}

\* C27: a request made while no swap is in flight, the cache is empty and
\* a refill is in flight starts a swap with a load of its own and leaves the
\* refill alone; and when the load of a swap delivers its image, the
\* crossfade of that swap begins in the same step with that image on the
\* hidden surface, whatever the cache holds by then
C27_OwnResolve ==
  /\ [][(reqs' > reqs /\ ~switching /\ preloaded = NoRes
          /\ NPreloads(loads) >= 1) =>
           /\ nSwaps' = nSwaps + 1
           /\ SwapLoads(loads', nSwaps') # {}
           /\ nSwaps' \notin fading'
           /\ NPreloads(loads') = NPreloads(loads)]_vars
  /\ [][\A co \in BagToSet(loads) :
           (co.owner = "swap" /\ ev' = "resumed"
            /\ SwapLoads(loads', co.n) = {}) =>
             (co.n \in fading' /\ bgImage'[bgBuffer] = co.url)]_vars

\* the first swap failed; the one request made since found the page idle
\* with a refill in flight, and its own load has just delivered the image
\* now fading in, the refill being in flight still
C27_Witness ==
  /\ ev = "resumed" /\ reqs = 1 /\ nSwaps = 2 /\ ~queued
  /\ bgPrimary = "bgLayer" /\ bgImage["bgLayer"] = FALLBACK_BG
  /\ 1 \notin active /\ 2 \in fading /\ NPreloads(loads) >= 1

\* C28 as stated: the step that completes a swap, by the end of its
\* crossfade or by the failure of its load, starts a refill load whatever
\* the cache holds
C28_RefillAlways ==
  [][((fading \ fading' # {}) \/ ev' = "swapFailed") =>
       NPreloads(loads') > NPreloads(loads)]_vars

\* C28: the step that completes a crossfade empties the cache and starts a
\* refill load, whatever queued and the cache were; the step in which the
\* load of a swap fails starts one refill load when the cache is empty and
\* none when it is populated, leaving the cached result in place
C28_RefillUnlessCached ==
  [][/\ (fading \ fading' # {}) =>
          (NPreloads(loads') > NPreloads(loads) /\ preloaded' = NoRes)
     /\ ev' = "swapFailed" =>
          IF preloaded = NoRes
          THEN NPreloads(loads') = NPreloads(loads) + 1
          ELSE NPreloads(loads') = NPreloads(loads)
               /\ preloaded' = preloaded]_vars

\* a swap has just failed with a result cached: no refill was started
C28_Witness ==
  ev = "swapFailed" /\ preloaded # NoRes /\ NPreloads(loads) = 0

\* C29: the step in which a crossfade begins writes the new image to a
\* surface that was hidden (it carried the class fade) when the step began,
\* and leaves the image of the other surface as it was
C29_ImageOnHiddenSurface ==
  [][\A k \in fading' \ fading :
        /\ fade[xf'[k].new]
        /\ bgImage'[xf'[k].old] = bgImage[xf'[k].old]]_vars

\* the entries of a log that nextUrl returned
ProviderEntries(log) ==
  Cardinality({i \in DOMAIN log : log[i].kind = "provider"})

RECURSIVE SumEntries(_)
SumEntries(S) ==
  IF S = {} THEN 0
  ELSE LET co == CHOOSE c \in S : TRUE
       IN  ProviderEntries(co.log) + SumEntries(S \ {co})

\* the calls of nextUrl made since the script was loaded
NUrlCalls == SumEntries({co \in BagToSet(loads) : co.owner = "caller"})

\* C30: the cursor is the number of calls of nextUrl made so far modulo the
\* number of providers; a step makes one call at most, and the call made
\* after N others returns the URL of provider (N + 1) mod the number of
\* providers, so consecutive calls go through the providers in cyclic order
C30_RoundRobin ==
  /\ [](providerIdx = NUrlCalls % ProviderCount)
  /\ [][NUrlCalls' # NUrlCalls =>
          /\ NUrlCalls' = NUrlCalls + 1
          /\ \E co \in BagToSet(loads') :
                /\ co \notin BagToSet(loads)
                /\ co.url = ProviderUrl((NUrlCalls + 1) % ProviderCount)
                /\ co.log[Len(co.log)] = co.url]_vars

\* four calls in a row returned the providers 1, 0, 1, 0
C30_Witness ==
  /\ BagCardinality(loads) = 4
  /\ \A co \in BagToSet(loads) :
        co.status = "returned" /\ co.url = ProviderUrl(co.n % ProviderCount)

\* C31: a change of the interval or of the blur leaves switching, queued,
\* the cache, the roles, the surfaces, the loads and the tone as they are;
\* every other step of the mounted page leaves the interval, its timer and
\* the blur as they are
C31_FieldOwnership ==
  /\ [][(ev' \in {"interval", "blur"}) =>
          UNCHANGED <<switching, queued, preloaded, bgPrimary, bgBuffer,
                      fade, bgImage, tone, loads, providerIdx, listeners,
                      timers, nSwaps>>]_vars
  /\ [][(mounted /\ ev' \notin {"interval", "blur"}) =>
          UNCHANGED <<store, bgTimer, intervals, blur, blurStore>>]_vars

\* the blur has just been changed while a swap was in flight with a request
\* queued, an image cached and the timer armed
C31_Witness ==
  /\ ev = "blur" /\ blur = 20
  /\ switching /\ queued /\ preloaded # NoRes /\ intervals # {}

\* C32: in the second script (sequential fade), every swap whose image was
\* delivered (awaited, or taken from the preload) while switching is set is
\* eventually followed by switching = false, given that loads settle and
\* armed timers fire.
C32_SeqProgress ==
  (mounted /\ switching /\ ev \in {"resumed", "consumed"}) ~> ~switching

\* what no run of the second script leaves: the buffers unassigned, nothing
\* for a frame, a timer or a listener to complete
SeqNothingPending ==
  /\ bgPrimary = NULL /\ bgBuffer = NULL
  /\ listeners = {} /\ timers = <<>> /\ xf = <<>>

\* C33: at any time at most one call of loadNextWithRetry started by
\* startProactivePreload (a refill of the preload) is in flight.
C33_OneRefill == NPreloads(loads) <= 1

\* C34: whenever the mounted page is idle (switching = false), the primary
\* surface does not carry the class 'fade' and the buffer surface carries it.
C34_VisibilityFollowsRole ==
  (mounted /\ ~switching) => (~fade[bgPrimary] /\ fade[bgBuffer])

\* C35: a call of loadNextWithRetry with the default budget that has come to
\* the fallback has requested the image of every provider exactly once,
\* whatever other calls were in flight meanwhile.
C35_EachProviderOnce ==
  \A co \in Calls :
    (co.maxTries = UNDEF /\ \E j \in DOMAIN co.log : co.log[j] = FALLBACK_BG)
      => \A i \in 0..(ProviderCount - 1) :
            Cardinality({j \in DOMAIN co.log : co.log[j] = ProviderUrl(i)}) = 1

\* C36: the item 'dove-theme' is changed only by a click on the theme
\* toggle (setTheme); every other step, applyTone at the mount and at the
\* swaps included, leaves it as it is, so that a reload finds the theme that
\* was last selected.
C36_ThemeKept == [][ev' # "theme" => theme' = theme]_vars

\* C37: a fetch event whose request matches an entry of a cache is answered
\* with that entry and makes no network request; a request for a URL of
\* urlsToCache is answered with the copy the install stored, without a
\* network request, whether the network is up or down.
C37_CacheFirst ==
  \A i \in DOMAIN fetches :
    /\ fetches[i].hit # NoResponse =>
          /\ fetches[i].stage = "done"
          /\ fetches[i].out = fetches[i].hit
          /\ ~fetches[i].net
    /\ (fetches[i].url \in UrlsToCache /\ fetches[i].stage # "match") =>
          /\ fetches[i].stage = "done"
          /\ fetches[i].out = Response(fetches[i].url, 200, "basic", 0)
          /\ ~fetches[i].net

\* with the network down since before the request, the script of the page
\* was served from the cache
C37_Witness ==
  \E i \in DOMAIN fetches :
    /\ fetches[i].url = P(<<"assets", "/", "app.js">>) /\ fetches[i].down /\ ~online
    /\ fetches[i].stage = "done" /\ ~fetches[i].net
    /\ fetches[i].out = Response(P(<<"assets", "/", "app.js">>), 200, "basic", 0)

\* C38: a fetch event whose request is in no cache and whose network
\* request fails is answered with the offline page the install stored; and
\* a response that the fetch listener stores in the current cache has
\* status 200 and type 'basic'.
C38_OfflineFallback ==
  /\ [](\A i \in DOMAIN fetches :
          (fetches[i].stage = "done" /\ fetches[i].failed) =>
             fetches[i].out = Response(OFFLINE_URL, 200, "basic", 0))
  /\ [][(swPhase = "activated" /\ swPhase' = "activated") =>
          \A u \in RequestUrls :
             cacheStore'[CACHE_NAME][u] # cacheStore[CACHE_NAME][u] =>
                /\ cacheStore'[CACHE_NAME][u].status = 200
                /\ cacheStore'[CACHE_NAME][u].type = "basic"]_vars

\* a request for a page failed on the network and got the offline page; a
\* later request for it was answered by the network, and that response is
\* in the cache
C38_Witness ==
  /\ Len(fetches) = 2
  /\ fetches[1].url = P(<<"go", "/", "1", "/">>) /\ fetches[1].failed
  /\ fetches[1].stage = "done"
  /\ fetches[1].out = Response(OFFLINE_URL, 200, "basic", 0)
  /\ fetches[2].net /\ ~fetches[2].failed
  /\ fetches[2].out = Response(P(<<"go", "/", "1", "/">>), 200, "basic", 1)
  /\ cacheStore[CACHE_NAME][P(<<"go", "/", "1", "/">>)] = fetches[2].out

\* C39: once the worker is activated the cache storage holds the cache
\* CACHE_NAME and no other, and no step of the activation changes the
\* entries of that cache.
C39_OnlyCurrentCache ==
  /\ [](swPhase = "activated" => cacheNames = <<CACHE_NAME>>)
  /\ [][(swPhase \in {"installed", "activating"}) =>
          /\ CACHE_NAME \in DOMAIN cacheStore'
          /\ cacheStore'[CACHE_NAME] = cacheStore[CACHE_NAME]]_vars

\* the activation deleted the cache of the earlier worker and left the
\* current one with the entries of the install
C39_Witness ==
  /\ swPhase = "activated"
  /\ "dove-site-v1" \in DOMAIN deletes /\ deletes["dove-site-v1"]
  /\ cacheNames = <<CACHE_NAME>>
  /\ \A u \in UrlsToCache : cacheStore[CACHE_NAME][u] = Response(u, 200, "basic", 0)
====
